---- MODULE Spec2Model ----
(***************************************************************************)
(* Verification model of the adaptive fetch-orchestration core of the      *)
(* LarsHoliday vacation deal finder:                                       *)
(*   - StrategyMetrics / AdaptiveRouter      (src/scraper_health.py)       *)
(*   - Cache                                 (src/rate_limit_bypass.py)    *)
(*   - VacationAgent.find_best_deals         (src/holland_agent.py)        *)
(*   - PriceAlertSystem                      (src/rate_limit_bypass.py)    *)
(*   - BookingScraper, PatchrightAirbnbScraper (src/*_scraper.py)          *)
(*                                                                         *)
(* Time is the wall clock in minutes (time.time() / 60, datetime.now()).   *)
(* Durations of attempts are in seconds, as in the source.  Rational       *)
(* numbers (rates, scores) are records [n, d] with d > 0 and are compared  *)
(* by cross-multiplication, so no rounding is introduced by the model.     *)
(***************************************************************************)
EXTENDS Integers, Sequences, FiniteSets, TLC

VARIABLES
    now,        \* the wall clock, in minutes
    records,    \* StrategyMetrics.records: the list of AttemptRecord
    ret,        \* the value returned by the call made in the last step
    data,       \* Cache.data: key -> (value, timestamp), in memory
    disk,       \* the durable cache file: missing, or key -> {value, timestamp}
    lastSet,    \* history: per key, the value and time of the latest Cache.set
    pc,         \* find_best_deals: idle, budgeted, gather, aggregated, validated, weather, returned, raised
    budget_max, \* VacationAgent.budget_max (the nightly cap)
    tasks,      \* the _search_with_delay task of each destination
    run,        \* the observability run of the call: status, counters, events
    all_deals,  \* VacationAgent.all_deals
    ranked,     \* the ranked deals of the call
    calls,      \* number of find_best_deals calls started
    alerts,     \* PriceAlertSystem.alerts['properties']: property id -> property
    alerts_file,\* the storage file of the price alerts: missing, or the saved table
    appended,   \* history: per property, every price entry appended, in order of arrival
    clock,      \* time.time() as the resilience layer reads it, in seconds
    delayer,    \* the RequestDelayer: base and current delays, pressure level, time stamps
    notified,   \* history: the time of the latest notify_pressure() call, the calls counted
    backoff,    \* the ExponentialBackoff: its attempt counter
    req,        \* SmartRequester.request: position and history of the call in progress
    tracker,    \* the ObservabilityTracker: active runs, history, run ids handed out
    waiters,    \* the tasks inside RequestDelayer.wait(): position, wake-up and release times
    callers     \* overlapping find_best_deals calls on one agent: position, own cap, what each used

cacheVars == <<data, disk, lastSet>>

agentVars == <<pc, budget_max, tasks, run, all_deals, ranked, calls>>

alertVars == <<alerts, alerts_file, appended>>

paceVars == <<clock, delayer, notified, backoff, req, tracker, waiters, callers>>

vars == <<now, records, ret, cacheVars, agentVars, alertVars, paceVars>>

(***************************************************************************)
(* Generic helpers                                                         *)
(***************************************************************************)
Range(s) == {s[i] : i \in DOMAIN s}

Max(a, b) == IF a >= b THEN a ELSE b

Min(a, b) == IF a <= b THEN a ELSE b

\* the last k elements of s (python s[-k:], k >= 1)
LastN(s, k) == IF Len(s) <= k THEN s ELSE SubSeq(s, Len(s) - k + 1, Len(s))

\* index of the first occurrence of x in s (0 when absent)
IndexOf(s, x) == IF x \in Range(s) THEN CHOOSE i \in DOMAIN s : s[i] = x /\ \A j \in 1..(i - 1) : s[j] # x ELSE 0

\* rationals n/d, d > 0
Rat(n, d) == [n |-> n, d |-> d]

RatLess(a, b) == a.n * b.d < b.n * a.d

RatEq(a, b) == a.n * b.d = b.n * a.d

RECURSIVE SumSeq(_)
SumSeq(s) == IF s = <<>> THEN 0 ELSE Head(s) + SumSeq(Tail(s))

NoRet == [op |-> "none"]

(***************************************************************************)
(* StrategyMetrics                                                         *)
(***************************************************************************)
max_records == 500

FAILURE_COOLDOWN_THRESHOLD == 5

FAILURE_COOLDOWN_MINUTES == 30

WINDOW_MINUTES == 60

SPEED_REFERENCE_SECONDS == 60

\* StrategyMetrics._save: trim the history to the last max_records records
\* (the file write itself changes no state the queries read)
MetricsSave(recs) == IF Len(recs) > max_records THEN LastN(recs, max_records) ELSE recs

AttemptRecord(source, strategy, success, duration) ==
    [timestamp |-> now, source |-> source, strategy |-> strategy,
     success |-> success, duration_seconds |-> duration]

\* StrategyMetrics.record: append, then _save
RecordedList(recs, source, strategy, success, duration) ==
    MetricsSave(Append(recs, AttemptRecord(source, strategy, success, duration)))

\* mutant: the records of every age are returned
get_recent_records_AnyAge(source, strategy, window_minutes) ==
    LET Keep(r) == r.source = source /\ r.strategy = strategy
    IN  SelectSeq(records, Keep)

\* the records of the source and strategy with timestamp >= cutoff
get_recent_records(source, strategy, window_minutes) ==
    LET cutoff == now - window_minutes
        Keep(r) == r.timestamp >= cutoff /\ r.source = source /\ r.strategy = strategy
    IN  SelectSeq(records, Keep)

\* (rate, count); the rate is [n |-> -1, d |-> 1] when there is no data
get_success_rate(source, strategy) ==
    LET recs == get_recent_records(source, strategy, WINDOW_MINUTES)
        IsSuccess(r) == r.success
    IN  IF recs = <<>>
        THEN [rate |-> Rat(-1, 1), count |-> 0]
        ELSE [rate |-> Rat(Len(SelectSeq(recs, IsSuccess)), Len(recs)), count |-> Len(recs)]

get_avg_duration(source, strategy) ==
    LET IsSuccess(r) == r.success
        recs == SelectSeq(get_recent_records(source, strategy, WINDOW_MINUTES), IsSuccess)
    IN  IF recs = <<>>
        THEN Rat(0, 1)
        ELSE Rat(SumSeq([i \in DOMAIN recs |-> recs[i].duration_seconds]), Len(recs))

RECURSIVE CountTrailingFailures(_)
CountTrailingFailures(recs) ==
    IF recs = <<>> \/ recs[Len(recs)].success
    THEN 0
    ELSE 1 + CountTrailingFailures(SubSeq(recs, 1, Len(recs) - 1))

SourceRecords(source) ==
    LET OfSource(r) == r.source = source IN SelectSeq(records, OfSource)

get_consecutive_failures(source) == CountTrailingFailures(SourceRecords(source))

(***************************************************************************)
(* AdaptiveRouter                                                          *)
(***************************************************************************)
\* speed_score = max(0.0, 1.0 - avg_dur / 60.0)
SpeedScore(avg) ==
    Rat(Max(0, SPEED_REFERENCE_SECONDS * avg.d - avg.n), SPEED_REFERENCE_SECONDS * avg.d)

\* mutant: the two weights exchanged (0.2 * rate + 0.8 * speed_score)
StrategyScore_WeightsSwapped(source, strategy) ==
    LET sr    == get_success_rate(source, strategy)
        speed == SpeedScore(get_avg_duration(source, strategy))
    IN  IF sr.rate.n < 0
        THEN Rat(1, 2)
        ELSE Rat(sr.rate.n * speed.d + 4 * sr.rate.d * speed.n, 5 * sr.rate.d * speed.d)

\* score = 0.5 without data, else 0.8 * rate + 0.2 * speed_score
StrategyScore(source, strategy) ==
    LET sr    == get_success_rate(source, strategy)
        speed == SpeedScore(get_avg_duration(source, strategy))
    IN  IF sr.rate.n < 0
        THEN Rat(1, 2)
        ELSE Rat(4 * sr.rate.n * speed.d + sr.rate.d * speed.n, 5 * sr.rate.d * speed.d)

\* mutant: x goes in front of the elements of equal score (ties reversed)
InsertDesc_TiesReversed(sorted, x) ==
    LET before == {i \in DOMAIN sorted : RatLess(x.score, sorted[i].score)}
        k == IF before = {} THEN 0 ELSE CHOOSE i \in before : \A j \in before : j <= i
    IN  SubSeq(sorted, 1, k) \o <<x>> \o SubSeq(sorted, k + 1, Len(sorted))

\* one step of a stable descending sort: x goes after every element whose
\* score is >= its own (elements already placed came earlier in the input)
InsertDesc(sorted, x) ==
    LET before == {i \in DOMAIN sorted : ~RatLess(sorted[i].score, x.score)}
        k == IF before = {} THEN 0 ELSE CHOOSE i \in before : \A j \in before : j <= i
    IN  SubSeq(sorted, 1, k) \o <<x>> \o SubSeq(sorted, k + 1, Len(sorted))

\* scored.sort(key=score, reverse=True): python's sort is stable
RECURSIVE SortDesc(_)
SortDesc(scored) ==
    IF scored = <<>> THEN <<>>
    ELSE InsertDesc(SortDesc(SubSeq(scored, 1, Len(scored) - 1)), scored[Len(scored)])

\* an optional argument: None, or a given list
NoneArg == [given |-> FALSE, list |-> <<>>]

Some(list) == [given |-> TRUE, list |-> list]

\* AdaptiveRouter.DEFAULT_STRATEGIES.get(source, ['curl-cffi', 'fallback'])
DEFAULT_STRATEGIES(source) == <<"curl-cffi", "fallback">>

\* mutant: 'fallback' is sorted by its score like any other strategy
OrderOf_FallbackSorted(source, available_strategies) ==
    LET scored == [i \in DOMAIN available_strategies |->
                     [strategy |-> available_strategies[i],
                      score |-> StrategyScore(source, available_strategies[i])]]
        sorted == SortDesc(scored)
    IN  [i \in DOMAIN sorted |-> sorted[i].strategy]

OrderOf(source, available_strategies) ==
    LET scored == [i \in DOMAIN available_strategies |->
                     [strategy |-> available_strategies[i],
                      score |-> StrategyScore(source, available_strategies[i])]]
        sorted == SortDesc(scored)
        NotFallback(s) == s.strategy # "fallback"
        kept   == SelectSeq(sorted, NotFallback)
        result == [i \in DOMAIN kept |-> kept[i].strategy]
    IN  IF "fallback" \in Range(available_strategies)
        THEN Append(result, "fallback")
        ELSE result

get_strategy_order(source, available) ==
    IF available.given
    THEN OrderOf(source, available.list)
    ELSE OrderOf(source, DEFAULT_STRATEGIES(source))

\* mutant: the cooldown counts as elapsed at exactly 30 minutes
should_skip_source_ElapsedAtLimit(source) ==
    LET consecutive == get_consecutive_failures(source)
        source_records == SourceRecords(source)
    IN  IF consecutive >= FAILURE_COOLDOWN_THRESHOLD /\ source_records # <<>>
        THEN LET last_attempt == source_records[Len(source_records)].timestamp
                 cooldown_elapsed == (now - last_attempt) >= FAILURE_COOLDOWN_MINUTES
             IN  ~cooldown_elapsed
        ELSE FALSE

\* mutant: a hard stop, the cooldown is never checked
should_skip_source_HardStop(source) ==
    get_consecutive_failures(source) >= FAILURE_COOLDOWN_THRESHOLD

should_skip_source(source) ==
    LET consecutive == get_consecutive_failures(source)
        source_records == SourceRecords(source)
    IN  IF consecutive >= FAILURE_COOLDOWN_THRESHOLD /\ source_records # <<>>
        THEN LET last_attempt == source_records[Len(source_records)].timestamp
                 cooldown_elapsed == (now - last_attempt) > FAILURE_COOLDOWN_MINUTES
             IN  ~cooldown_elapsed
        ELSE FALSE

(***************************************************************************)
(* Cache (rate_limit_bypass.py): an in-memory table with a TTL, written    *)
(* whole to a JSON file by every set.  Tables are functions whose domain   *)
(* is the set of keys present.  Cached values are JSON lists (of listings).*)
(***************************************************************************)
ttl_minutes == 30

EmptyMap == [k \in {} |-> {}]

NoFile == [exists |-> FALSE, entries |-> EmptyMap]

File(entries) == [exists |-> TRUE, entries |-> entries]

\* an optional value: python's None, or a value
None == [some |-> FALSE, value |-> <<>>]

Just(v) == [some |-> TRUE, value |-> v]

\* d with d[key] = entry (key added or overwritten)
Put(d, key, entry) == [k \in (DOMAIN d) \cup {key} |-> IF k = key THEN entry ELSE d[k]]

\* d without key
Drop(d, key) == [k \in (DOMAIN d) \ {key} |-> d[k]]

\* datetime.isoformat(): the time of day as text, here <<"T", hours, minutes>>
isoformat(t) == <<"T", t \div 60, t % 60>>

\* datetime.fromisoformat()
fromisoformat(text) == text[2] * 60 + text[3]

\* an entry is expired unless  datetime.now() - timestamp < self.ttl
Expired(timestamp) == ~(now - timestamp < ttl_minutes)

\* Cache._save_to_disk: the whole table, timestamps as ISO text
\* (values are JSON-native lists, which json.dump/json.load give back unchanged)
SavedFile(d) ==
    File([k \in DOMAIN d |-> [value |-> d[k].value, timestamp |-> isoformat(d[k].timestamp)]])

\* mutant: a loaded entry is stamped with the time of loading
LoadedTable_Restamped(file) ==
    IF ~file.exists THEN EmptyMap
    ELSE LET fresh == {k \in DOMAIN file.entries :
                          ~Expired(fromisoformat(file.entries[k].timestamp))}
         IN  [k \in fresh |-> [value |-> file.entries[k].value, timestamp |-> now]]

\* Cache._load_from_disk: the entries of the file that are not expired, with
\* the timestamp they were written with
LoadedTable(file) ==
    IF ~file.exists THEN EmptyMap
    ELSE LET fresh == {k \in DOMAIN file.entries :
                          ~Expired(fromisoformat(file.entries[k].timestamp))}
         IN  [k \in fresh |-> [value |-> file.entries[k].value,
                               timestamp |-> fromisoformat(file.entries[k].timestamp)]]

\* Cache.get, the table afterwards: an expired entry of the key is deleted
CacheAfterGet(d, key) ==
    IF key \in DOMAIN d /\ Expired(d[key].timestamp) THEN Drop(d, key) ELSE d

\* mutant: the entry is returned whatever its age
CacheGetResult_NoTtl(d, key) == IF key \in DOMAIN d THEN Just(d[key].value) ELSE None

\* Cache.get, the value returned
CacheGetResult(d, key) ==
    IF key \in DOMAIN d /\ ~Expired(d[key].timestamp) THEN Just(d[key].value) ELSE None

\* mutant: a set writes a table that holds the new entry alone
CacheAfterSet_Alone(d, key, value) == Put(EmptyMap, key, [value |-> value, timestamp |-> now])

\* Cache.set, the table afterwards
CacheAfterSet(d, key, value) == Put(d, key, [value |-> value, timestamp |-> now])

\* cache.get(key)
CacheGet(key) ==
    /\ ret' = [op |-> "get", key |-> key, result |-> CacheGetResult(data, key)]
    /\ data' = CacheAfterGet(data, key)
    /\ UNCHANGED <<now, records, disk, lastSet, agentVars, alertVars, paceVars>>

\* cache.set(key, value): store, then _save_to_disk
CacheSet(key, value) ==
    /\ data' = CacheAfterSet(data, key, value)
    /\ disk' = SavedFile(data')
    /\ lastSet' = Put(lastSet, key, [value |-> value, at |-> now])
    /\ ret' = [op |-> "set", key |-> key]
    /\ UNCHANGED <<now, records, agentVars, alertVars, paceVars>>

\* cache.clear(): empty the table and remove the file
CacheClear ==
    /\ data' = EmptyMap
    /\ disk' = NoFile
    /\ lastSet' = EmptyMap
    /\ ret' = NoRet
    /\ UNCHANGED <<now, records, agentVars, alertVars, paceVars>>

\* cache.cleanup(): delete the expired entries, save when there was one
CacheCleanup ==
    /\ data' = [k \in {j \in DOMAIN data : ~Expired(data[j].timestamp)} |-> data[k]]
    /\ disk' = IF data' # data THEN SavedFile(data') ELSE disk
    /\ ret' = NoRet
    /\ UNCHANGED <<now, records, lastSet, agentVars, alertVars, paceVars>>

\* the process ends and a new Cache(...) is constructed on the same file
CacheRestart ==
    /\ data' = LoadedTable(disk)
    /\ ret' = [op |-> "restart"]
    /\ UNCHANGED <<now, records, disk, lastSet, agentVars, alertVars, paceVars>>

(***************************************************************************)
(* Listings, validation and ranking (holland_agent.py, deal_ranker.py).    *)
(* A listing is a record; a source is its name and the number of           *)
(* " (cache)" suffixes it carries; ratings are in tenths.                  *)
(***************************************************************************)
Source(name) == [name |-> name, cacheTags |-> 0]

\* VacationAgent._invalid_reason: the first failing check, or "valid"
invalid_reason(deal, pets, cap) ==
    IF deal.name = "" THEN "missing_name"
    ELSE IF deal.location = "" THEN "missing_location"
    ELSE IF deal.source.name = "" THEN "missing_source"
    ELSE IF deal.url = "" THEN "missing_url"
    ELSE IF deal.price_per_night <= 0 THEN "invalid_price"
    ELSE IF deal.price_per_night > cap THEN "over_budget"
    ELSE IF deal.rating10 < 0 \/ deal.rating10 > 50 THEN "invalid_rating"
    ELSE IF deal.reviews < 0 THEN "invalid_reviews"
    ELSE IF pets > 0 /\ ~deal.pet_friendly THEN "not_pet_friendly"
    ELSE "valid"

\* VacationAgent._validate_deals: the listings kept (already normalised here)
valid_deals(raw, pets, cap) ==
    LET Valid(deal) == invalid_reason(deal, pets, cap) = "valid" IN SelectSeq(raw, Valid)

\* mutant: halves are rounded up
round_HalfUp(n, d) == (2 * n + d) \div (2 * d)

\* python round(n / d) for n >= 0, d > 0: the nearest integer, a half to the even one
round(n, d) ==
    LET q == n \div d
        r == n % d
    IN  IF 2 * r < d THEN q
        ELSE IF 2 * r > d THEN q + 1
        ELSE IF q % 2 = 0 THEN q ELSE q + 1

\* DealRanker._calculate_base_score and _apply_multipliers: 0 for a price
\* that is not positive, else (price_score + rating_score + review_score),
\* times 1.4 if pet-friendly; times 1500 to stay an integer (weather bonus 1.0)
rank_score(deal) ==
    LET base == Max(0, 12000 - 100 * deal.price_per_night)
                + 180 * deal.rating10
                + Min(6000, 15 * deal.reviews)
    IN  IF deal.price_per_night <= 0 THEN 0
        ELSE IF deal.pet_friendly THEN 7 * base ELSE 5 * base

\* the "rank_score" of a scored deal: the score to one decimal, in tenths
rank_score_tenths(deal) == round(rank_score(deal), 150)

\* a variant returning the scored deals unsorted
rank_deals_Unsorted(deals) ==
    LET Named(deal) == deal.name # "" IN SelectSeq(deals, Named)

\* DealRanker.rank_deals: listings without a name are dropped, the others
\* are sorted by their "rank_score", best first (stable)
rank_deals(deals) ==
    LET Named(deal) == deal.name # ""
        named  == SelectSeq(deals, Named)
        scored == [i \in DOMAIN named |-> [deal |-> named[i], score |-> Rat(rank_score_tenths(named[i]), 1)]]
        sorted == SortDesc(scored)
    IN  [i \in DOMAIN sorted |-> sorted[i].deal]

(***************************************************************************)
(* VacationAgent._validate_deals on raw listings (holland_agent.py).  A    *)
(* raw listing is what a source returned: each key is absent or holds a    *)
(* text, a number or a boolean, and the payload itself may not be a dict.  *)
(* Prices are whole euros, ratings are in tenths.                          *)
(***************************************************************************)
Absent == [kind |-> "absent", s |-> "", n |-> 0]

Text(s) == [kind |-> "str", s |-> s, n |-> 0]

Num(n) == [kind |-> "num", s |-> "", n |-> n]

Flag(b) == [kind |-> "bool", s |-> "", n |-> IF b THEN 1 ELSE 0]

\* not str(deal.get(key, "")).strip()
Blank(v) == v.kind = "absent" \/ (v.kind = "str" /\ v.s \in {"", " "})

\* _safe_float(value, default): float(value), or the default when float
\* raises TypeError (None) or ValueError (a text that is not a number)
safe_float(v, default) == IF v.kind = "num" THEN v.n ELSE default

\* _safe_int(value, default)
safe_int(v, default) == IF v.kind = "num" THEN v.n ELSE default

\* deal.get("pet_friendly") is True
IsTrue(v) == v.kind = "bool" /\ v.n = 1

\* mutant: the rating is checked before the price
raw_invalid_reason_RatingFirst(deal, pets, cap) ==
    IF ~IsTrue(deal.payload) THEN "invalid_payload"
    ELSE IF Blank(deal.name) THEN "missing_name"
    ELSE IF Blank(deal.location) THEN "missing_location"
    ELSE IF Blank(deal.source) THEN "missing_source"
    ELSE IF Blank(deal.url) THEN "missing_url"
    ELSE IF safe_float(deal.rating, 0) < 0 \/ safe_float(deal.rating, 0) > 50 THEN "invalid_rating"
    ELSE IF safe_float(deal.price_per_night, -1) <= 0 THEN "invalid_price"
    ELSE IF safe_float(deal.price_per_night, -1) > cap THEN "over_budget"
    ELSE IF safe_int(deal.reviews, 0) < 0 THEN "invalid_reviews"
    ELSE IF pets > 0 /\ ~IsTrue(deal.pet_friendly) THEN "not_pet_friendly"
    ELSE "valid"

\* VacationAgent._invalid_reason on a raw listing: the reason of the first
\* failing check, or "valid" (None in the source)
raw_invalid_reason(deal, pets, cap) ==
    IF ~IsTrue(deal.payload) THEN "invalid_payload"
    ELSE IF Blank(deal.name) THEN "missing_name"
    ELSE IF Blank(deal.location) THEN "missing_location"
    ELSE IF Blank(deal.source) THEN "missing_source"
    ELSE IF Blank(deal.url) THEN "missing_url"
    ELSE IF safe_float(deal.price_per_night, -1) <= 0 THEN "invalid_price"
    ELSE IF safe_float(deal.price_per_night, -1) > cap THEN "over_budget"
    ELSE IF safe_float(deal.rating, 0) < 0 \/ safe_float(deal.rating, 0) > 50 THEN "invalid_rating"
    ELSE IF safe_int(deal.reviews, 0) < 0 THEN "invalid_reviews"
    ELSE IF pets > 0 /\ ~IsTrue(deal.pet_friendly) THEN "not_pet_friendly"
    ELSE "valid"

\* the normalised copy of a valid listing
Normalized(deal) ==
    [name |-> deal.name.s, location |-> deal.location.s, source |-> Source(deal.source.s),
     url |-> deal.url.s,
     price_per_night |-> safe_float(deal.price_per_night, 0),
     rating10 |-> Min(50, Max(0, safe_float(deal.rating, 0))),
     reviews |-> Max(0, safe_int(deal.reviews, 0)),
     pet_friendly |-> IsTrue(deal.pet_friendly)]

\* VacationAgent._validate_deals: the valid listings, normalised, and the report
validate_deals(raw, pets, cap) ==
    LET Valid(deal) == raw_invalid_reason(deal, pets, cap) = "valid"
        kept     == SelectSeq(raw, Valid)
        rejected == {i \in DOMAIN raw : ~Valid(raw[i])}
        codes    == {raw_invalid_reason(raw[i], pets, cap) : i \in rejected}
    IN  [valid  |-> [i \in DOMAIN kept |-> Normalized(kept[i])],
         report |-> [total_raw |-> Len(raw),
                     valid_count |-> Len(kept),
                     rejected_count |-> Len(raw) - Len(kept),
                     rejected_reasons |->
                        [r \in codes |-> Cardinality({i \in rejected :
                                            raw_invalid_reason(raw[i], pets, cap) = r})]]]

\* nights = max(1, (d2 - d1).days) and self.budget_max (holland_agent.py:80-87)
nightly_cap(budget, budget_type, stay) ==
    IF budget_type = "total" THEN round(budget, Max(1, stay)) ELSE budget

\* find_best_deals, the budget: the nightly cap is stored in the agent
SetBudget(budget, budget_type, stay) ==
    /\ pc \in {"idle", "validated"}
    /\ pc' = "budgeted"
    /\ budget_max' = nightly_cap(budget, budget_type, stay)
    /\ all_deals' = <<>>
    /\ ret' = [op |-> "budget", budget |-> budget, budget_type |-> budget_type, stay |-> stay]
    /\ UNCHANGED <<now, records, cacheVars, tasks, run, ranked, calls, alertVars, paceVars>>

\* find_best_deals, the aggregation: all_deals holds the raw listings of
\* all destinations (holland_agent.py:164-166)
Aggregated(raw) ==
    /\ pc = "budgeted"
    /\ pc' = "aggregated"
    /\ all_deals' = raw
    /\ UNCHANGED <<now, records, ret, cacheVars, budget_max, tasks, run, ranked, calls, alertVars, paceVars>>

\* self._validate_deals(pets): all_deals keeps the valid listings,
\* normalised, and the report is returned
ValidateDeals(pets) ==
    /\ pc = "aggregated"
    /\ pc' = "validated"
    /\ all_deals' = validate_deals(all_deals, pets, budget_max).valid
    /\ ret' = [op |-> "_validate_deals", budget |-> ret.budget, budget_type |-> ret.budget_type,
               stay |-> ret.stay, pets |-> pets, raw |-> all_deals,
               report |-> validate_deals(all_deals, pets, budget_max).report]
    /\ UNCHANGED <<now, records, cacheVars, budget_max, tasks, run, ranked, calls, alertVars, paceVars>>

(***************************************************************************)
(* PriceAlertSystem.track_property, as the orchestrator calls it.          *)
(***************************************************************************)
\* the parameters the method declares (rate_limit_bypass.py:320-327)
TrackPropertyParameters == {"property_id", "name", "price", "url", "source"}

\* the keyword arguments of the orchestrator's call (holland_agent.py:195-203)
TrackPropertyCallKeywords ==
    {"property_id", "name", "price", "url", "source", "threshold", "cooldown_minutes"}

\* python binds the call only when every keyword is a declared parameter;
\* otherwise the call raises TypeError before the body runs
TrackPropertyCallBinds == TrackPropertyCallKeywords \subseteq TrackPropertyParameters

(***************************************************************************)
(* PriceAlertSystem (rate_limit_bypass.py).  A property is its price       *)
(* history, its threshold and the time of its last alert; the name, url    *)
(* and source of a property play no part in the decisions and are left     *)
(* out.  Prices are whole euros, so the drop is an exact rational.         *)
(***************************************************************************)
\* PriceAlertSystem.__init__(alert_threshold=0.20)
alert_threshold == Rat(20, 100)

\* "Keep only last 10 prices"
max_prices == 10

\* prop['last_alert']: None, or the isoformat of the time of the alert
NoAlert == [some |-> FALSE, at |-> <<>>]

AlertAt(t) == [some |-> TRUE, at |-> isoformat(t)]

\* the property created on the first observation
NewProperty == [prices |-> <<>>, alert_threshold |-> alert_threshold, last_alert |-> NoAlert]

PropertyOf(table, property_id) ==
    IF property_id \in DOMAIN table THEN table[property_id] ELSE NewProperty

\* price_entry
PriceEntry(price, t) == [price |-> price, date |-> isoformat(t)]

\* mutant: the drop is measured from the first recorded price
old_price_First(prices) == prices[1].price

\* old_price = prop['prices'][-2]['price'], read after the append
old_price(prices) == prices[Len(prices) - 1].price

\* old_price > new_price and (old_price - new_price) / old_price >= threshold;
\* the quotient is negative when old_price is
DropReaches(old, new, threshold) ==
    /\ old > new
    /\ old # 0
    /\ IF old > 0
       THEN (old - new) * threshold.d >= threshold.n * old
       ELSE (old - new) * threshold.d <= threshold.n * old

\* the division (old_price - new_price) / old_price raises ZeroDivisionError:
\* the history as it is after the append has a last-but-one price of 0 and
\* the new price is below it
DropDividesByZero(prices, price) ==
    /\ Len(prices) >= 2
    /\ old_price(prices) = 0
    /\ old_price(prices) > price

\* alert_triggered, for the history as it is after the append
AlertTriggered(prices, price, threshold) ==
    /\ Len(prices) >= 2
    /\ DropReaches(old_price(prices), price, threshold)

\* mutant: the first entries are kept
KeptPrices_First(prices) ==
    IF Len(prices) > max_prices THEN SubSeq(prices, 1, max_prices) ELSE prices

\* prop['prices'][-10:] when there are more than 10
KeptPrices(prices) ==
    IF Len(prices) > max_prices THEN LastN(prices, max_prices) ELSE prices

\* the property after track_property(price) at time t
TrackedProperty(prop, price, t) ==
    LET recorded == Append(prop.prices, PriceEntry(price, t))
    IN  [prices |-> KeptPrices(recorded),
         alert_threshold |-> prop.alert_threshold,
         last_alert |-> IF AlertTriggered(recorded, price, prop.alert_threshold)
                        THEN AlertAt(t) ELSE prop.last_alert]

\* the keyword arguments of a call without overrides (tests/test_price_alerts.py:19-25)
BaseKeywords == {"property_id", "name", "price", "url", "source"}

NoOverrides == <<>>

\* price_alerts.track_property(property_id=..., price=..., **overrides): a
\* keyword the method does not declare raises TypeError before the body
\* runs; otherwise the price is recorded, the drop is checked, the history
\* is trimmed and the table is saved.  A division by a previous price of 0
\* raises ZeroDivisionError after the append, before the trim and the save
TrackProperty(property_id, price, overrides) ==
    LET keywords == BaseKeywords \cup {overrides[i][1] : i \in DOMAIN overrides}
        before   == PropertyOf(alerts, property_id)
        recorded == Append(before.prices, PriceEntry(price, now))
        call     == [op |-> "track_property", property_id |-> property_id, price |-> price,
                     overrides |-> overrides, at |-> now, before |-> before]
    IN  /\ IF keywords \subseteq TrackPropertyParameters /\ DropDividesByZero(recorded, price)
           THEN /\ alerts' = Put(alerts, property_id, [before EXCEPT !.prices = recorded])
                /\ appended' = Put(appended, property_id,
                                   Append(IF property_id \in DOMAIN appended THEN appended[property_id] ELSE <<>>,
                                          PriceEntry(price, now)))
                /\ ret' = call @@ [raised |-> TRUE, triggered |-> FALSE, message |-> ""]
                /\ UNCHANGED alerts_file
           ELSE IF keywords \subseteq TrackPropertyParameters
           THEN /\ alerts' = Put(alerts, property_id, TrackedProperty(before, price, now))
                /\ alerts_file' = File(alerts')
                /\ appended' = Put(appended, property_id,
                                   Append(IF property_id \in DOMAIN appended THEN appended[property_id] ELSE <<>>,
                                          PriceEntry(price, now)))
                /\ ret' = call @@
                          [raised |-> FALSE,
                           triggered |-> AlertTriggered(recorded, price, before.alert_threshold),
                           message |-> IF AlertTriggered(recorded, price, before.alert_threshold)
                                       THEN "PRICE ALERT" ELSE ""]
           ELSE /\ ret' = call @@ [raised |-> TRUE, triggered |-> FALSE, message |-> ""]
                /\ UNCHANGED alertVars
        /\ UNCHANGED <<now, records, cacheVars, agentVars, paceVars>>

\* price_alerts.get_history(property_id)
get_history(property_id) == PropertyOf(alerts, property_id).prices

(***************************************************************************)
(* VacationAgent.find_best_deals                                           *)
(***************************************************************************)
\* the destinations of a search, and the search parameters kept fixed
Cities == <<"d1", "d2", "d3">>

Pets == 1

NoRun == [status |-> "none", city_failures |-> 0, cache_hits |-> 0, cache_misses |-> 0,
          cache_sets |-> 0, error_events |-> <<>>]

NewRun == [NoRun EXCEPT !.status = "running"]

\* Cache.make_key("agent_search", city=..., checkin=..., checkout=...,
\* group_size=..., pets=..., budget_max=...): the digest of the parameters,
\* here the parameters that vary (distinct parameters, distinct keys)
make_key(city, pets, cap) == <<"agent_search", city, pets, cap>>

\* mutant: the copy of a cached listing keeps its source as it is
CacheTagged_Untagged(deal) == deal

\* the tagged copy of a cached listing (holland_agent.py:120-124)
CacheTagged(deal) ==
    IF deal.source.cacheTags = 0
    THEN [deal EXCEPT !.source.cacheTags = 1]
    ELSE deal

TaggedCopy(cached) == [i \in DOMAIN cached |-> CacheTagged(cached[i])]

Pending == [kind |-> "pending", deals |-> <<>>]

Listed(deals) == [kind |-> "list", deals |-> deals]

Raised == [kind |-> "exception", deals |-> <<>>]

ReadyTask == [pc |-> "ready", key |-> <<>>, result |-> Pending, fetched |-> FALSE,
              sawFresh |-> FALSE, sawValue |-> <<>>]

\* find_best_deals up to asyncio.gather: the run is started, the nightly cap
\* is stored in the agent and one task per destination is created
StartCall(budget) ==
    /\ pc \in {"idle", "returned", "raised"}
    /\ pc' = "gather"
    /\ budget_max' = budget
    /\ tasks' = [i \in DOMAIN Cities |-> ReadyTask]
    /\ run' = NewRun
    /\ all_deals' = <<>>
    /\ ranked' = <<>>
    /\ calls' = calls + 1
    /\ ret' = NoRet
    /\ UNCHANGED <<now, records, cacheVars, alertVars, paceVars>>

\* _search_with_delay up to its first suspension: the key, the cache lookup,
\* and on a hit the tagged copy as the task's result
TaskStart(i) ==
    /\ pc = "gather"
    /\ tasks[i].pc = "ready"
    /\ \A j \in 1..(i - 1) : tasks[j].pc # "ready"
    /\ LET key    == make_key(Cities[i], Pets, budget_max)
           cached == CacheGetResult(data, key)
           fresh  == key \in DOMAIN lastSet /\ now - lastSet[key].at < ttl_minutes
           seen   == [tasks[i] EXCEPT !.key = key, !.sawFresh = fresh,
                                      !.sawValue = IF fresh THEN lastSet[key].value ELSE <<>>]
       IN  /\ data' = CacheAfterGet(data, key)
           /\ IF cached.some
              THEN /\ tasks' = [tasks EXCEPT ![i] =
                                  [seen EXCEPT !.pc = "done", !.result = Listed(TaggedCopy(cached.value))]]
                   /\ run' = [run EXCEPT !.cache_hits = @ + 1]
              ELSE /\ tasks' = [tasks EXCEPT ![i] = [seen EXCEPT !.pc = "fetching"]]
                   /\ run' = [run EXCEPT !.cache_misses = @ + 1]
    /\ ret' = NoRet
    /\ UNCHANGED <<now, records, disk, lastSet, pc, budget_max, all_deals, ranked, calls, alertVars, paceVars>>

\* _search_with_delay after the stagger sleep: _search_single_city raises
TaskRaises(i) ==
    /\ pc = "gather"
    /\ tasks[i].pc = "fetching"
    /\ tasks' = [tasks EXCEPT ![i] = [@ EXCEPT !.pc = "done", !.result = Raised, !.fetched = TRUE]]
    /\ ret' = NoRet
    /\ UNCHANGED <<now, records, cacheVars, pc, budget_max, run, all_deals, ranked, calls, alertVars, paceVars>>

\* _search_with_delay after the stagger sleep: _search_single_city returns
\* deals; a non-empty list is cached under the task's key
TaskReturns(i, deals) ==
    /\ pc = "gather"
    /\ tasks[i].pc = "fetching"
    /\ tasks' = [tasks EXCEPT ![i] = [@ EXCEPT !.pc = "done", !.result = Listed(deals), !.fetched = TRUE]]
    /\ IF deals # <<>>
       THEN /\ data' = CacheAfterSet(data, tasks[i].key, deals)
            /\ disk' = SavedFile(data')
            /\ lastSet' = Put(lastSet, tasks[i].key, [value |-> deals, at |-> now])
            /\ run' = [run EXCEPT !.cache_sets = @ + 1]
       ELSE UNCHANGED <<cacheVars, run>>
    /\ ret' = NoRet
    /\ UNCHANGED <<now, records, pc, budget_max, all_deals, ranked, calls, alertVars, paceVars>>

RECURSIVE Flatten(_)
Flatten(lists) == IF lists = <<>> THEN <<>> ELSE Head(lists) \o Flatten(Tail(lists))

\* final_results: a task's list, or the empty list for a task that raised
FinalResults == [i \in DOMAIN tasks |-> IF tasks[i].result.kind = "list" THEN tasks[i].result.deals ELSE <<>>]

FailedCities ==
    LET Failed(i) == tasks[i].result.kind # "list"
        idx == SelectSeq([i \in DOMAIN tasks |-> i], Failed)
    IN  [k \in DOMAIN idx |-> Cities[idx[k]]]

\* find_best_deals from the return of gather to the weather lookup: failures
\* are counted, the lists are flattened and validated, and track_property is
\* called for every valid listing; an exception ends the run with 'error'
\* and is raised again
Aggregate ==
    /\ pc = "gather"
    /\ \A i \in DOMAIN tasks : tasks[i].pc = "done"
    /\ LET valid == valid_deals(Flatten(FinalResults), Pets, budget_max)
           counted == [run EXCEPT !.city_failures = @ + Len(FailedCities),
                                  !.error_events = @ \o FailedCities]
       IN  /\ all_deals' = valid
           /\ IF valid # <<>> /\ ~TrackPropertyCallBinds
              THEN /\ pc' = "raised"
                   /\ run' = [counted EXCEPT !.status = "error"]
              ELSE /\ pc' = "weather"
                   /\ run' = counted
    /\ ret' = NoRet
    /\ UNCHANGED <<now, records, cacheVars, budget_max, tasks, ranked, calls, alertVars, paceVars>>

\* find_best_deals after the weather lookup: rank, end the run, return
Finish ==
    /\ pc = "weather"
    /\ ranked' = rank_deals(all_deals)
    /\ run' = [run EXCEPT !.status = "ok"]
    /\ pc' = "returned"
    /\ ret' = NoRet
    /\ UNCHANGED <<now, records, cacheVars, budget_max, tasks, all_deals, calls, alertVars, paceVars>>

(***************************************************************************)
(* RequestDelayer (rate_limit_bypass.py): adaptive pacing.  Times are in   *)
(* seconds; the delays are rationals, since a level adds half of the base. *)
(***************************************************************************)
\* the highest pressure level
max_pressure_level == 5

\* the seconds of calm after which the pressure decays by one level
decay_seconds == 300

\* base * multiplier, whole when the product is whole
Times(base, m) ==
    IF (base * m.n) % m.d = 0 THEN Rat((base * m.n) \div m.d, 1) ELSE Rat(base * m.n, m.d)

\* a variant adding a quarter of the base for each level
multiplier_Quarter(level) == Rat(4 + level, 4)

\* multiplier = 1.0 + (pressure_level * 0.5)
multiplier(level) == Rat(2 + level, 2)

\* RequestDelayer(min_delay, max_delay)
NewDelayer(min_delay, max_delay) ==
    [base_min_delay |-> min_delay, base_max_delay |-> max_delay,
     min_delay |-> Rat(min_delay, 1), max_delay |-> Rat(max_delay, 1),
     last_request_time |-> 0, pressure_level |-> 0, last_pressure_time |-> 0]

\* the delayer with its delays scaled to the level
Scaled(d, level) ==
    [d EXCEPT !.pressure_level = level,
              !.min_delay = Times(d.base_min_delay, multiplier(level)),
              !.max_delay = Times(d.base_max_delay, multiplier(level))]

\* notify_pressure() at time t: the delayer afterwards
notify_pressure(d, t) ==
    [Scaled(d, Min(d.pressure_level + 1, max_pressure_level)) EXCEPT !.last_pressure_time = t]

\* _maybe_decay_pressure() at time t: the delayer afterwards
maybe_decay_pressure(d, t) ==
    IF d.pressure_level > 0 /\ d.last_pressure_time > 0 /\ t - d.last_pressure_time > decay_seconds
    THEN [Scaled(d, Max(0, d.pressure_level - 1)) EXCEPT !.last_pressure_time = t]
    ELSE d

\* wait(): whether the call sleeps, elapsed < min_delay
Paced(d, t) == (t - d.last_request_time) * d.min_delay.d < d.min_delay.n

\* random.uniform(min_delay, max_delay), sampled at the shortest and at the
\* longest whole number of seconds
PacingDelay(d, long) ==
    IF long THEN d.max_delay.n \div d.max_delay.d
    ELSE (d.min_delay.n + d.min_delay.d - 1) \div d.min_delay.d

(***************************************************************************)
(* ExponentialBackoff (rate_limit_bypass.py)                               *)
(***************************************************************************)
\* the cap of the exponential part, in seconds
max_backoff_seconds == 120

\* the cap of the jitter, in seconds
max_jitter_seconds == 10

RECURSIVE Pow2(_)
Pow2(k) == IF k = 0 THEN 1 ELSE 2 * Pow2(k - 1)

\* ExponentialBackoff(max_retries, base_delay)
NewBackoff(max_retries, base_delay) ==
    [max_retries |-> max_retries, base_delay |-> base_delay, attempt |-> 0]

\* a variant without the cap
backoff_delay_Uncapped(b) == Pow2(b.attempt) * b.base_delay

\* delay = min(120.0, (2 ** self.attempt) * self.base_delay)
backoff_delay(b) == Min(max_backoff_seconds, Pow2(b.attempt) * b.base_delay)

\* min(10.0, delay * 0.3), the upper end of the jitter
jitter_bound(delay) ==
    IF 3 * delay < 10 * max_jitter_seconds
    THEN (IF (3 * delay) % 10 = 0 THEN Rat((3 * delay) \div 10, 1) ELSE Rat(3 * delay, 10))
    ELSE Rat(max_jitter_seconds, 1)

\* random.uniform(0, bound), sampled at both ends
Jitter(delay, high) == IF high THEN jitter_bound(delay) ELSE Rat(0, 1)

\* get_delay(), the jitter drawn at its upper or at its lower end
get_delay(b, high) ==
    LET jitter == Jitter(backoff_delay(b), high)
    IN  Rat(backoff_delay(b) * jitter.d + jitter.n, jitter.d)

\* a variant retrying once more
should_retry_Inclusive(b) == b.attempt <= b.max_retries

\* should_retry()
should_retry(b) == b.attempt < b.max_retries

\* the whole seconds asyncio.sleep(delay) takes at least
SleepSeconds(delay) == delay.n \div delay.d

(***************************************************************************)
(* SmartRequester (rate_limit_bypass.py): the cache, the delayer and the   *)
(* backoff around one request function.                                    *)
(***************************************************************************)
\* the markers str(e).lower() is searched for
RateLimitMarkers == {"429", "rate limit", "too many requests"}

\* the markers an error message contains
MarkersIn(error) ==
    CASE error = "429 Too Many Requests" -> {"429", "too many requests"}
      [] error = "Rate limit exceeded" -> {"rate limit"}
      [] OTHER -> {}

\* '429' in error_str or 'rate limit' in error_str or 'too many requests' in error_str
IsRateLimit(error) == MarkersIn(error) \cap RateLimitMarkers # {}

\* no request made yet
NoRequest ==
    [pc |-> "idle", started |-> 0, cache_key |-> "", calls |-> 0, signals |-> 0, waits |-> 0,
     error |-> ""]

(***************************************************************************)
(* ObservabilityTracker (observability.py)                                 *)
(***************************************************************************)
\* ended_at: None, or a time
NotEnded == [some |-> FALSE, value |-> 0]

EndedAt(t) == [some |-> TRUE, value |-> t]

\* RunState(run_id, component, started_at, params)
NewRunState(run_id, t) ==
    [run_id |-> run_id, started_at |-> t, counters |-> EmptyMap, attributes |-> EmptyMap,
     ended_at |-> NotEnded, status |-> "running"]

\* RunState.to_summary() at time t: a run that has not ended lasts until t
to_summary(state, t) ==
    LET end_ts == IF state.ended_at.some THEN state.ended_at.value ELSE t
    IN  [run_id |-> state.run_id, status |-> state.status, started_at |-> state.started_at,
         ended_at |-> state.ended_at, duration_seconds |-> Max(0, end_ts - state.started_at),
         counters |-> state.counters, attributes |-> state.attributes]

\* dict.update: d with every pair of more
Updated(d, more) == [k \in (DOMAIN d) \cup (DOMAIN more) |-> IF k \in DOMAIN more THEN more[k] ELSE d[k]]

\* ObservabilityTracker(max_history=...): the summaries retained (200 when
\* the argument is left out)
max_history == 1

\* ObservabilityTracker(): no active run, no history, no run id handed out
NewTracker == [active |-> EmptyMap, history |-> <<>>, issued |-> 0]

\* a variant evicting the newest summaries
Retained_Newest(history, limit) == IF Len(history) > limit THEN SubSeq(history, 1, limit) ELSE history

\* while len(self._history) > self.max_history: self._history.pop(0)
Retained(history, limit) == LastN(history, limit)

(***************************************************************************)
(* Operations of the resilience layer and of the tracker, as steps         *)
(***************************************************************************)
\* time.time() when the process starts
ClockStart == 1000

\* the minute the second c falls in, counted from the start
MinuteOf(c) == (c - ClockStart) \div 60

\* seconds pass: both clocks move on
Elapse(seconds) ==
    /\ clock' = clock + seconds
    /\ now' = now + (MinuteOf(clock + seconds) - MinuteOf(clock))

\* delayer.notify_pressure()
DelayerNotify ==
    /\ delayer' = notify_pressure(delayer, clock)
    /\ notified' = [notified EXCEPT !.at = clock, !.calls = @ + 1]
    /\ ret' = [op |-> "notify_pressure", before |-> delayer.pressure_level]
    /\ UNCHANGED <<now, records, cacheVars, agentVars, alertVars, waiters, callers, clock, backoff, req, tracker>>

\* await delayer.wait(): decay the pressure, sleep delay seconds when the
\* previous paced call is less than min_delay ago, stamp the call
DelayerWait(long) ==
    LET decayed == maybe_decay_pressure(delayer, clock)
        slept   == IF Paced(decayed, clock) THEN PacingDelay(decayed, long) ELSE 0
    IN  /\ Elapse(slept)
        /\ delayer' = [decayed EXCEPT !.last_request_time = clock + slept]
        /\ ret' = [op |-> "wait", at |-> clock, before |-> delayer.pressure_level,
                   paced_at |-> decayed.pressure_level, slept |-> slept]
        /\ notified' = [notified EXCEPT !.waits = @ + 1]
        /\ UNCHANGED <<records, cacheVars, agentVars, alertVars, waiters, callers, backoff, req, tracker>>

\* the clock advances by seconds (no operation runs)
ClockTick(seconds, limit) ==
    /\ clock + seconds <= limit
    /\ Elapse(seconds)
    /\ ret' = NoRet
    /\ UNCHANGED <<records, cacheVars, agentVars, alertVars, waiters, callers, delayer, notified, backoff, req, tracker>>

\* backoff.get_delay()
BackoffGetDelay(high) ==
    /\ ret' = [op |-> "get_delay", attempt |-> backoff.attempt, result |-> get_delay(backoff, high)]
    /\ UNCHANGED <<now, records, cacheVars, agentVars, alertVars, paceVars>>

\* await backoff.wait(): sleep get_delay() seconds, count the attempt
BackoffWait(high) ==
    /\ Elapse(SleepSeconds(get_delay(backoff, high)))
    /\ backoff' = [backoff EXCEPT !.attempt = @ + 1]
    /\ ret' = [op |-> "backoff_wait", attempt |-> backoff.attempt, slept |-> get_delay(backoff, high)]
    /\ UNCHANGED <<records, cacheVars, agentVars, alertVars, waiters, callers, delayer, notified, req, tracker>>

\* backoff.reset()
BackoffReset ==
    /\ backoff' = [backoff EXCEPT !.attempt = 0]
    /\ ret' = [op |-> "reset", attempt |-> backoff.attempt]
    /\ UNCHANGED <<now, records, cacheVars, agentVars, alertVars, waiters, callers, clock, delayer, notified, req, tracker>>

\* smart_requester.request(make_request, cache_key), up to the first call of
\* make_request: a cached value is returned at once, otherwise the delayer
\* paces the request ("" stands for no cache key)
RequestStart(cache_key, long) ==
    LET cached  == IF cache_key # "" THEN CacheGetResult(data, cache_key) ELSE None
        decayed == maybe_decay_pressure(delayer, clock)
        slept   == IF Paced(decayed, clock) THEN PacingDelay(decayed, long) ELSE 0
        begun   == [NoRequest EXCEPT !.started = req.started + 1, !.cache_key = cache_key]
    IN  /\ req.pc # "calling"
        /\ data' = IF cache_key # "" THEN CacheAfterGet(data, cache_key) ELSE data
        /\ IF cached.some
           THEN /\ req' = [begun EXCEPT !.pc = "returned"]
                /\ ret' = [op |-> "request", outcome |-> "cached", error |-> ""]
                /\ UNCHANGED <<now, clock, delayer, notified>>
           ELSE /\ Elapse(slept)
                /\ delayer' = [decayed EXCEPT !.last_request_time = clock + slept]
                /\ notified' = [notified EXCEPT !.waits = @ + 1]
                /\ req' = [begun EXCEPT !.pc = "calling"]
                /\ ret' = [op |-> "request", outcome |-> "paced", error |-> ""]
        /\ UNCHANGED <<records, disk, lastSet, agentVars, alertVars, waiters, callers, backoff, tracker>>

\* one turn of the loop of request: make_request() returns (error = "") or
\* raises error; a result is cached and returned, a rate-limit error signals
\* pressure and backs off and is retried or given up, any other is re-raised
RequestCall(error, high) ==
    LET waited == [backoff EXCEPT !.attempt = @ + 1]
    IN  /\ req.pc = "calling"
        /\ IF error = ""
           THEN /\ IF req.cache_key # ""
                   THEN /\ data' = CacheAfterSet(data, req.cache_key, <<"page">>)
                        /\ disk' = SavedFile(data')
                        /\ lastSet' = Put(lastSet, req.cache_key, [value |-> <<"page">>, at |-> now])
                   ELSE UNCHANGED cacheVars
                /\ backoff' = [backoff EXCEPT !.attempt = 0]
                /\ req' = [req EXCEPT !.pc = "returned", !.calls = @ + 1]
                /\ UNCHANGED <<now, clock, delayer, notified>>
           ELSE IF IsRateLimit(error)
           THEN /\ delayer' = notify_pressure(delayer, clock)
                /\ notified' = [notified EXCEPT !.at = clock, !.calls = @ + 1]
                /\ Elapse(SleepSeconds(get_delay(backoff, high)))
                /\ backoff' = waited
                /\ req' = [req EXCEPT !.pc = IF should_retry(waited) THEN "calling" ELSE "raised",
                                      !.calls = @ + 1, !.signals = @ + 1, !.waits = @ + 1,
                                      !.error = IF should_retry(waited) THEN "" ELSE "Max retries exceeded"]
                /\ UNCHANGED cacheVars
           ELSE /\ req' = [req EXCEPT !.pc = "raised", !.calls = @ + 1, !.error = error]
                /\ UNCHANGED <<now, clock, cacheVars, delayer, notified, backoff>>
        /\ ret' = [op |-> "make_request", error |-> error, outcome |-> req'.pc]
        /\ UNCHANGED <<records, agentVars, alertVars, waiters, callers, tracker>>

\* observability_tracker.start_run(component): a fresh run id
StartRun ==
    LET run_id == tracker.issued + 1
    IN  /\ tracker' = [tracker EXCEPT !.issued = run_id,
                                      !.active = Put(@, run_id, NewRunState(run_id, clock))]
        /\ ret' = [op |-> "start_run", run_id |-> run_id, active |-> FALSE, summary |-> <<>>]
        /\ UNCHANGED <<now, records, cacheVars, agentVars, alertVars, waiters, callers, clock, delayer, notified, backoff, req>>

\* observability_tracker.incr(run_id, key)
Incr(run_id, key) ==
    LET state == tracker.active[run_id]
        count == IF key \in DOMAIN state.counters THEN state.counters[key] ELSE 0
    IN  /\ tracker' = IF run_id \in DOMAIN tracker.active
                      THEN [tracker EXCEPT !.active[run_id].counters = Put(@, key, count + 1)]
                      ELSE tracker
        /\ ret' = [op |-> "incr", run_id |-> run_id, active |-> run_id \in DOMAIN tracker.active,
                   summary |-> <<>>]
        /\ UNCHANGED <<now, records, cacheVars, agentVars, alertVars, waiters, callers, clock, delayer, notified, backoff, req>>

\* observability_tracker.set_attr(run_id, key, value)
SetAttr(run_id, key, value) ==
    /\ tracker' = IF run_id \in DOMAIN tracker.active
                  THEN [tracker EXCEPT !.active[run_id].attributes = Put(@, key, value)]
                  ELSE tracker
    /\ ret' = [op |-> "set_attr", run_id |-> run_id, active |-> run_id \in DOMAIN tracker.active,
               summary |-> <<>>]
    /\ UNCHANGED <<now, records, cacheVars, agentVars, alertVars, waiters, callers, clock, delayer, notified, backoff, req>>

\* observability_tracker.end_run(run_id, status, **final_attrs): the value
\* returned is <<summary>>, or <<>> (python {}) for a run that is not active
EndRun(run_id, status, final_attrs) ==
    LET state   == tracker.active[run_id]
        ended   == [state EXCEPT !.ended_at = EndedAt(clock), !.status = status,
                                 !.attributes = Updated(@, final_attrs)]
    IN  /\ IF run_id \in DOMAIN tracker.active
           THEN /\ tracker' = [tracker EXCEPT !.active = Drop(@, run_id),
                                              !.history = Retained(Append(@, to_summary(ended, clock)), max_history)]
                /\ ret' = [op |-> "end_run", run_id |-> run_id, active |-> TRUE,
                           summary |-> <<to_summary(ended, clock)>>]
           ELSE /\ tracker' = tracker
                /\ ret' = [op |-> "end_run", run_id |-> run_id, active |-> FALSE, summary |-> <<>>]
        /\ UNCHANGED <<now, records, cacheVars, agentVars, alertVars, waiters, callers, clock, delayer, notified, backoff, req>>

(***************************************************************************)
(* Operations on the metrics store and the router, as steps                *)
(***************************************************************************)
\* scraper_metrics.record(source, strategy, success, duration)
RecordAttempt(source, strategy, success, duration) ==
    /\ records' = RecordedList(records, source, strategy, success, duration)
    /\ ret' = NoRet
    /\ UNCHANGED <<now, cacheVars, agentVars, alertVars, paceVars>>

\* the clock advances by step minutes (no operation runs)
Tick(step, limit) ==
    /\ now + step <= limit
    /\ now' = now + step
    /\ ret' = NoRet
    /\ UNCHANGED <<records, cacheVars, agentVars, alertVars, paceVars>>

\* router.get_strategy_order(source, available_strategies)
GetStrategyOrder(source, available) ==
    /\ ret' = [op |-> "get_strategy_order", source |-> source, available |-> available,
               result |-> get_strategy_order(source, available)]
    /\ UNCHANGED <<now, records, cacheVars, agentVars, alertVars, paceVars>>

\* router.should_skip_source(source)
ShouldSkipSource(source) ==
    /\ ret' = [op |-> "should_skip_source", source |-> source,
               result |-> should_skip_source(source)]
    /\ UNCHANGED <<now, records, cacheVars, agentVars, alertVars, paceVars>>

\* a new process: no record, an empty cache and no cache file
InitMetrics ==
    /\ now = 0
    /\ records = <<>>
    /\ ret = NoRet
    /\ data = EmptyMap
    /\ disk = NoFile
    /\ lastSet = EmptyMap
    /\ pc = "idle"
    /\ budget_max = 250
    /\ tasks = <<>>
    /\ run = NoRun
    /\ all_deals = <<>>
    /\ ranked = <<>>
    /\ calls = 0
    /\ alerts = EmptyMap
    /\ alerts_file = NoFile
    /\ appended = EmptyMap
    /\ clock = ClockStart
    /\ delayer = NewDelayer(5, 15)
    /\ notified = [at |-> 0, calls |-> 0, waits |-> 0]
    /\ backoff = NewBackoff(5, 10)
    /\ req = NoRequest
    /\ tracker = NewTracker
    /\ waiters = <<>>
    /\ callers = <<>>

(***************************************************************************)
(* SpecOrder: attempts of the strategies of one source are recorded, time  *)
(* passes, and the router is asked for the strategy order.                 *)
(***************************************************************************)
MaxOrderRecords == 3

MaxOrderTicks == 2

\* the attempts recorded: <<source, strategy, success, duration_seconds>>
OrderAttempts ==
    {<<"airbnb", "curl-cffi", TRUE, 30>>, <<"airbnb", "curl-cffi", FALSE, 90>>,
     <<"airbnb", "patchright", TRUE, 90>>, <<"airbnb", "patchright", FALSE, 90>>,
     <<"airbnb", "fallback", TRUE, 30>>, <<"booking", "curl-cffi", TRUE, 30>>}

OrderArgs ==
    {NoneArg,
     Some(<<"curl-cffi", "patchright", "fallback">>),
     Some(<<"fallback", "patchright", "curl-cffi">>),
     Some(<<"patchright", "curl-cffi">>)}

OrderRecord ==
    /\ Len(records) < MaxOrderRecords
    /\ \E a \in OrderAttempts : RecordAttempt(a[1], a[2], a[3], a[4])

OrderTick == Tick(WINDOW_MINUTES, MaxOrderTicks * WINDOW_MINUTES)

OrderQuery == \E available \in OrderArgs : GetStrategyOrder("airbnb", available)

NextOrder == OrderRecord \/ OrderTick \/ OrderQuery

SpecOrder == InitMetrics /\ [][NextOrder]_vars

(***************************************************************************)
(* SpecBreaker: attempts of two sources are recorded, time passes, and the *)
(* router is asked whether a source is to be skipped.                      *)
(***************************************************************************)
MaxBreakerRecords == 6

MaxBreakerTicks == 2

Sources == {"airbnb", "booking"}

\* the attempts recorded: <<source, success>>
BreakerAttempts == {<<"airbnb", TRUE>>, <<"airbnb", FALSE>>, <<"booking", TRUE>>}

BreakerRecord ==
    /\ Len(records) < MaxBreakerRecords
    /\ \E a \in BreakerAttempts : RecordAttempt(a[1], "smart_chain", a[2], 1)

BreakerTick == Tick(FAILURE_COOLDOWN_MINUTES, MaxBreakerTicks * FAILURE_COOLDOWN_MINUTES)

BreakerQuery == \E source \in Sources : ShouldSkipSource(source)

NextBreaker == BreakerRecord \/ BreakerTick \/ BreakerQuery

SpecBreaker == InitMetrics /\ [][NextBreaker]_vars

(***************************************************************************)
(* Claims about the router.  The statements below are written over the     *)
(* record list itself (index sets), not over the router's helper queries.  *)
(***************************************************************************)
\* indices of the records of (source, strategy) inside the scoring window
InWindow(source, strategy) ==
    {i \in DOMAIN records :
        /\ records[i].source = source
        /\ records[i].strategy = strategy
        /\ now - records[i].timestamp <= WINDOW_MINUTES}

AllSucceeded(source, strategy) ==
    /\ InWindow(source, strategy) # {}
    /\ \A i \in InWindow(source, strategy) : records[i].success

AllFailed(source, strategy) ==
    /\ InWindow(source, strategy) # {}
    /\ \A i \in InWindow(source, strategy) : ~records[i].success

RECURSIVE SumDurations(_)
SumDurations(idx) ==
    IF idx = {} THEN 0
    ELSE LET i == CHOOSE j \in idx : TRUE
         IN  records[i].duration_seconds + SumDurations(idx \ {i})

\* the score as the specification states it, times 300 * n * s (n attempts,
\* s successes in the window) so that it stays an integer:
\*   0.5 without data; 0.8 * s/n + 0.2 * max(0, 1 - (D/s)/60) otherwise,
\*   D the summed duration of the successes (speed term 1 when s = 0)
StatedScore(source, strategy) ==
    LET idx == InWindow(source, strategy)
        ok  == {i \in idx : records[i].success}
        n   == Cardinality(idx)
        s   == Cardinality(ok)
        D   == SumDurations(ok)
    IN  IF n = 0 THEN Rat(1, 2)
        ELSE IF s = 0 THEN Rat(1, 5)
        ELSE Rat(240 * s * s + n * Max(0, 60 * s - D), 300 * n * s)

IsOrderCall == ret.op = "get_strategy_order"

\* the list the call considered
Considered == IF ret.available.given THEN ret.available.list ELSE <<"curl-cffi", "fallback">>

NonFallback(list) == LET Keep(x) == x # "fallback" IN SelectSeq(list, Keep)

\* C6: whenever the list of strategies considered by get_strategy_order
\* contains 'fallback', the returned list ends with 'fallback', whatever
\* the recorded scores are.
C6_FallbackLast ==
    (IsOrderCall /\ "fallback" \in Range(Considered))
        => (ret.result # <<>> /\ ret.result[Len(ret.result)] = "fallback")

\* C6 witness: an order was returned for a list that does not end with
\* 'fallback', while 'fallback' has a strictly better score than another
\* strategy of the list.
C6_Witness ==
    /\ IsOrderCall
    /\ ret.available.given
    /\ ret.available.list[Len(ret.available.list)] # "fallback"
    /\ "fallback" \in Range(ret.available.list)
    /\ \E x \in Range(ret.available.list) :
          RatLess(StatedScore(ret.source, x), StatedScore(ret.source, "fallback"))

\* C7: a non-fallback strategy with only successes in the 60-minute window
\* is placed before a non-fallback strategy with only failures in the
\* window, for every recorded duration.
C7_SuccessBeforeFailure ==
    IsOrderCall =>
        \A a, b \in Range(Considered) \ {"fallback"} :
            (AllSucceeded(ret.source, a) /\ AllFailed(ret.source, b))
                => /\ IndexOf(ret.result, a) > 0
                   /\ IndexOf(ret.result, b) > 0
                   /\ IndexOf(ret.result, a) < IndexOf(ret.result, b)

\* C7 witness: the all-failure strategy precedes the all-success one in the
\* input list, and the successes were slower than the 60 s reference (their
\* speed term is 0).
C7_Witness ==
    /\ IsOrderCall
    /\ \E a, b \in Range(Considered) \ {"fallback"} :
          /\ AllSucceeded(ret.source, a)
          /\ AllFailed(ret.source, b)
          /\ IndexOf(Considered, b) < IndexOf(Considered, a)
          /\ \A i \in InWindow(ret.source, a) : records[i].duration_seconds > SPEED_REFERENCE_SECONDS

\* C8: the non-fallback strategies are returned by non-increasing stated
\* score (0.5 without data, else 0.8 * rate + 0.2 * speed), strategies of
\* equal score in their input order, and none is lost or added.
C8_OrderedByScore ==
    IsOrderCall =>
        LET input == NonFallback(Considered)
            out   == NonFallback(ret.result)
        IN  /\ Len(out) = Len(input)
            /\ Range(out) = Range(input)
            /\ \A i, j \in DOMAIN out :
                  i < j =>
                    \/ RatLess(StatedScore(ret.source, out[j]), StatedScore(ret.source, out[i]))
                    \/ /\ RatEq(StatedScore(ret.source, out[j]), StatedScore(ret.source, out[i]))
                       /\ IndexOf(input, out[i]) < IndexOf(input, out[j])

\* C8 witness: a strategy with recorded attempts ties at 0.5 with a strategy
\* that has no record in the window, and the tie is returned in input order.
C8_Witness ==
    /\ IsOrderCall
    /\ \E a, b \in Range(NonFallback(Considered)) :
          /\ a # b
          /\ InWindow(ret.source, a) # {}
          /\ InWindow(ret.source, b) = {}
          /\ RatEq(StatedScore(ret.source, a), StatedScore(ret.source, b))
          /\ IndexOf(ret.result, b) < IndexOf(ret.result, a)

IsSkipCall == ret.op = "should_skip_source"

\* indices of the records of a source, and of its k most recent records
OfSource(source) == {i \in DOMAIN records : records[i].source = source}

MostRecent(source, k) ==
    {i \in OfSource(source) : Cardinality({j \in OfSource(source) : j >= i}) <= k}

\* the five most recent records of the source exist and are all failures
\* (then so is every longer run of most recent failures)
FiveRecentFailures(source) ==
    /\ Cardinality(OfSource(source)) >= FAILURE_COOLDOWN_THRESHOLD
    /\ \A i \in MostRecent(source, FAILURE_COOLDOWN_THRESHOLD) : ~records[i].success

\* age in minutes of the most recent record of the source
LastAge(source) ==
    LET last == CHOOSE i \in OfSource(source) : \A j \in OfSource(source) : j <= i
    IN  now - records[last].timestamp

\* C9 as stated: should_skip_source is true exactly when the five or more
\* most recent records of the source are failures and the most recent one is
\* LESS than 30 minutes old (false when it is exactly 30 minutes old).
C9_AsStated ==
    IsSkipCall =>
        (ret.result <=> (FiveRecentFailures(ret.source)
                            /\ LastAge(ret.source) < FAILURE_COOLDOWN_MINUTES))

\* C9 amended: should_skip_source is true exactly when the five or more most
\* recent records of the source are failures and the most recent one is AT
\* MOST 30 minutes old; it is false once that record is more than 30 minutes old.
C9_SkipExactly ==
    IsSkipCall =>
        (ret.result <=> (FiveRecentFailures(ret.source)
                            /\ LastAge(ret.source) <= FAILURE_COOLDOWN_MINUTES))

\* C9 witness: the breaker is reported closed for a source whose most recent
\* failure is exactly 30 minutes old, with records of the other source
\* in between.
C9_Witness ==
    /\ IsSkipCall
    /\ ret.result
    /\ LastAge(ret.source) = FAILURE_COOLDOWN_MINUTES
    /\ \E i \in DOMAIN records : records[i].source # ret.source

\* C10: the breaker is no hard stop.  From a state in which
\* should_skip_source(source) is true: if time passes without a new record
\* and the last failure becomes more than 30 minutes old, it is false; and
\* after one successful attempt of the source is recorded, it is false.
C10_BreakerReleases ==
    [][\A source \in Sources :
          should_skip_source(source) =>
            /\ (records' = records /\ now' - (now - LastAge(source)) > FAILURE_COOLDOWN_MINUTES)
                  => ~should_skip_source(source)'
            /\ (Len(records') = Len(records) + 1
                  /\ records'[Len(records')].source = source
                  /\ records'[Len(records')].success)
                  => ~should_skip_source(source)']_vars

\* C10 witness: a source with five most recent failures, the last one more
\* than 30 minutes old, is reported not skipped.
C10_Witness ==
    /\ IsSkipCall
    /\ ~ret.result
    /\ FiveRecentFailures(ret.source)
    /\ LastAge(ret.source) > FAILURE_COOLDOWN_MINUTES

(***************************************************************************)
(* SpecCache: one cache file, used by a sequence of Cache instances.       *)
(***************************************************************************)
MaxCacheTicks == 3

CacheKeys == {"k1", "k2"}

CacheValues == {<<"deal-a">>, <<"deal-b">>}

CacheSetStep == \E key \in CacheKeys, value \in CacheValues : CacheSet(key, value)

CacheGetStep == \E key \in CacheKeys : CacheGet(key)

\* the clock advances by half a TTL
CacheTick == Tick(ttl_minutes \div 2, MaxCacheTicks * (ttl_minutes \div 2))

NextCache ==
    CacheSetStep \/ CacheGetStep \/ CacheClear \/ CacheCleanup \/ CacheRestart \/ CacheTick

SpecCache == InitMetrics /\ [][NextCache]_vars

\* C4: get(key) returns the value most recently set for the key when less
\* than the TTL has passed since that set and absent when the TTL or more
\* has passed (or nothing was set since the last clear); after a get that
\* found an expired entry the key is not in the in-memory table.
C4_GetWithinTtl ==
    ret.op = "get" =>
        /\ ret.result =
              (IF ret.key \in DOMAIN lastSet /\ now - lastSet[ret.key].at < ttl_minutes
               THEN Just(lastSet[ret.key].value)
               ELSE None)
        /\ (~ret.result.some => ret.key \notin DOMAIN data)

\* C4 witness: a get of a key that was set exactly one TTL ago returns
\* absent, while the other key, set later, is still in the table.
C4_Witness ==
    /\ ret.op = "get"
    /\ ret.key \in DOMAIN lastSet
    /\ now - lastSet[ret.key].at = ttl_minutes
    /\ ~ret.result.some
    /\ \E k \in DOMAIN data : k # ret.key /\ now - data[k].timestamp < ttl_minutes

\* C5: right after a Cache is constructed on the file left by an earlier
\* instance, its table holds exactly the keys set less than a TTL ago, each
\* with the value last set and with the timestamp of that set (so get
\* returns it, and the entry's lifetime is not extended by the restart).
C5_RestartRoundTrip ==
    ret.op = "restart" =>
        /\ DOMAIN data = {k \in DOMAIN lastSet : now - lastSet[k].at < ttl_minutes}
        /\ \A k \in DOMAIN data :
              /\ data[k].value = lastSet[k].value
              /\ data[k].timestamp = lastSet[k].at
              /\ CacheGetResult(data, k) = Just(lastSet[k].value)

\* C5 witness: a restart some time after the sets: one key survives with
\* its original, older timestamp and another key, already expired, is gone.
C5_Witness ==
    /\ ret.op = "restart"
    /\ \E k \in DOMAIN data : data[k].timestamp < now /\ data[k].timestamp > 0
    /\ \E k \in DOMAIN lastSet : k \notin DOMAIN data

(***************************************************************************)
(* SpecAgent: a sequence of find_best_deals calls on one agent, the tasks  *)
(* of a call interleaved at their suspension points.                       *)
(***************************************************************************)
MaxCalls == 2

MaxAgentTicks == 1

Budgets == {90, 250}

\* what _search_single_city can return for a destination: nothing, a valid
\* listing, or a listing without location
GoodDeal(city) ==
    [name |-> "Hotel", location |-> city, source |-> Source("booking"), url |-> city,
     price_per_night |-> 95, rating10 |-> 42, reviews |-> 45, pet_friendly |-> TRUE]

BadDeal(city) == [GoodDeal(city) EXCEPT !.location = ""]

SearchResults(city) == {<<>>, <<GoodDeal(city)>>, <<BadDeal(city)>>}

AgentCall ==
    /\ calls < MaxCalls
    /\ \E budget \in Budgets : StartCall(budget)

AgentTaskStart == \E i \in DOMAIN Cities : TaskStart(i)

AgentTaskRaises == \E i \in DOMAIN Cities : TaskRaises(i)

AgentTaskReturns == \E i \in DOMAIN Cities : \E deals \in SearchResults(Cities[i]) : TaskReturns(i, deals)

\* the clock advances by one TTL between two calls
AgentTick ==
    /\ pc \in {"idle", "returned", "raised"}
    /\ Tick(ttl_minutes, MaxAgentTicks * ttl_minutes)

NextAgent ==
    AgentCall \/ AgentTaskStart \/ AgentTaskRaises \/ AgentTaskReturns
        \/ Aggregate \/ Finish \/ AgentTick

SpecAgent == InitMetrics /\ [][NextAgent]_vars

\* the call has ended, by returning or by raising
CallEnded == pc \in {"returned", "raised"}

RaisedTasks == {i \in DOMAIN tasks : tasks[i].result.kind = "exception"}

\* the valid listings among the results of the destinations that did not raise
ValidOfOthers ==
    {d \in UNION {Range(tasks[i].result.deals) : i \in (DOMAIN tasks) \ RaisedTasks} :
        invalid_reason(d, Pets, budget_max) = "valid"}

\* C1 as stated: when the search of a destination raised, find_best_deals
\* still returns: it does not raise, exactly one city failure is counted and
\* evented for each such destination, and the valid listings of all other
\* destinations are the ranked result.
C1_AsStated ==
    (CallEnded /\ RaisedTasks # {}) =>
        /\ pc = "returned"
        /\ run.city_failures = Cardinality(RaisedTasks)
        /\ Len(run.error_events) = Cardinality(RaisedTasks)
        /\ Range(run.error_events) = {Cities[i] : i \in RaisedTasks}
        /\ Range(ranked) = ValidOfOthers

\* C2 as stated: with three destinations, the search of destination 1
\* failing and the searches of destinations 2 and 3 each returning a valid
\* listing, find_best_deals returns a non-empty ranked result and records
\* exactly one failure event, for destination 1.
C2_AsStated ==
    (/\ CallEnded
     /\ Len(tasks) = 3
     /\ RaisedTasks = {1}
     /\ \A i \in {2, 3} :
           /\ tasks[i].fetched
           /\ tasks[i].result.deals # <<>>
           /\ \A d \in Range(tasks[i].result.deals) : invalid_reason(d, Pets, budget_max) = "valid")
        => /\ pc = "returned"
           /\ ranked # <<>>
           /\ run.city_failures = 1
           /\ run.error_events = <<Cities[1]>>

\* C3: a destination whose cache key held an unexpired entry (set less than
\* a TTL before the lookup) is never fetched: its task is done without a
\* call of _search_single_city, and its result is the list that was set,
\* every listing carrying the cache tag exactly once and otherwise unchanged.
C3_CacheHitNoFetch ==
    \A i \in DOMAIN tasks :
        tasks[i].sawFresh =>
            /\ tasks[i].pc = "done"
            /\ ~tasks[i].fetched
            /\ tasks[i].result.kind = "list"
            /\ Len(tasks[i].result.deals) = Len(tasks[i].sawValue)
            /\ \A k \in DOMAIN tasks[i].sawValue :
                  /\ tasks[i].result.deals[k].source.cacheTags = 1
                  /\ tasks[i].result.deals[k] = [tasks[i].sawValue[k] EXCEPT !.source.cacheTags = 1]

\* C3 witness: in a second search a destination is served from the cache
\* while another destination of the same search is fetched.
C3_Witness ==
    /\ calls = 2
    /\ \E i, j \in DOMAIN tasks :
          /\ tasks[i].sawFresh
          /\ tasks[i].result.deals # <<>>
          /\ ~tasks[i].fetched
          /\ tasks[j].fetched

(***************************************************************************)
(* SpecAlerts: prices of two properties are observed, with and without     *)
(* per-call overrides, while time passes.                                  *)
(***************************************************************************)
MaxAlertCalls == 3

MaxAlertTicks == 2

\* the windows the test configures (tests/test_price_alerts.py:14-15)
cooldown_minutes == 120

dedupe_minutes == 10

Properties == {"p1", "p2"}

Prices == {100, 90, 70, 50}

\* the overrides of a call: none, a threshold of 5%, or the orchestrator's
\* threshold and cooldown (holland_agent.py:195-203)
Overrides ==
    { NoOverrides,
      <<(<<"threshold", Rat(5, 100)>>)>>,
      <<(<<"threshold", Rat(5, 100)>>), (<<"cooldown_minutes", 30>>)>> }

\* the entries ever appended for a property
AppendedOf(p) == IF p \in DOMAIN appended THEN appended[p] ELSE <<>>

RECURSIVE CountAppended(_)
CountAppended(ps) ==
    IF ps = {} THEN 0
    ELSE LET p == CHOOSE q \in ps : TRUE IN Len(AppendedOf(p)) + CountAppended(ps \ {p})

\* number of entries ever appended, over all properties
AppendedCount == CountAppended(Properties)

AlertTrack ==
    /\ AppendedCount < MaxAlertCalls
    /\ \E property_id \in Properties : \E price \in Prices : \E overrides \in Overrides :
          TrackProperty(property_id, price, overrides)

AlertTick ==
    /\ Tick(dedupe_minutes \div 2, MaxAlertTicks * (dedupe_minutes \div 2))

NextAlerts == AlertTrack \/ AlertTick

SpecAlerts == InitMetrics /\ [][NextAlerts]_vars

(***************************************************************************)
(* SpecHistory: many observations of the same properties, so that the      *)
(* history is trimmed.                                                     *)
(***************************************************************************)
MaxHistoryCalls == 11

HistoryPrices == {100, 70}

HistoryTrack ==
    /\ AppendedCount < MaxHistoryCalls
    /\ \E property_id \in Properties : \E price \in HistoryPrices :
          TrackProperty(property_id, price, NoOverrides)

NextHistory == HistoryTrack

SpecHistory == InitMetrics /\ [][NextHistory]_vars

(***************************************************************************)
(* Claims on the price alerts                                              *)
(***************************************************************************)
\* the last step was a track_property call that ran
IsTrackCall == ret.op = "track_property" /\ ~ret.raised

\* the last recorded price of the property before the call
Previous == ret.before.prices[Len(ret.before.prices)].price

\* (previous - current) / previous >= rate
StatedDropAtLeast(previous, current, rate) ==
    (previous - current) * rate.d >= rate.n * previous

\* C11: the first observation of a property never triggers; a later one
\* triggers exactly when the drop from the last recorded price of the
\* property is at least 20%: from 100 to 90 it does not, from 100 to 70 it does.
C11_TriggerRule ==
    IsTrackCall =>
        /\ ret.before.prices = <<>> => ~ret.triggered
        /\ ret.before.prices # <<>> =>
              /\ ret.triggered <=> StatedDropAtLeast(Previous, ret.price, Rat(20, 100))
              /\ (Previous = 100 /\ ret.price = 90) => ~ret.triggered
              /\ (Previous = 100 /\ ret.price = 70) => ret.triggered

\* C11 witness: an alert on a drop from the last price, which is not the
\* first recorded price
C11_Witness ==
    /\ IsTrackCall
    /\ ret.triggered
    /\ Len(ret.before.prices) >= 2
    /\ Previous # ret.before.prices[1].price

\* the age of the property's last alert at the time of the call
SinceLastAlert == ret.at - fromisoformat(ret.before.last_alert.at)

\* C12 as stated: two alerts of a property are at least the cooldown (120
\* minutes) apart, and an observation whose drop reaches the threshold
\* before the cooldown has elapsed returns not-triggered with an empty
\* message and leaves last_alert as it was.
C12_AsStated ==
    (IsTrackCall /\ ret.before.last_alert.some /\ SinceLastAlert < cooldown_minutes) =>
        /\ ~ret.triggered
        /\ ret.message = ""
        /\ alerts[ret.property_id].last_alert = ret.before.last_alert

\* C13 as stated: a call whose price equals the most recent recorded price
\* of the property, less than 10 minutes after that record, appends nothing
\* to the history and returns not-triggered.
C13_AsStated ==
    (/\ IsTrackCall
     /\ ret.before.prices # <<>>
     /\ Previous = ret.price
     /\ ret.at - fromisoformat(ret.before.prices[Len(ret.before.prices)].date) < dedupe_minutes)
        => /\ Len(alerts[ret.property_id].prices) = Len(ret.before.prices)
           /\ alerts[ret.property_id].prices = ret.before.prices
           /\ ~ret.triggered

\* C14 as stated: a call with a threshold override, or with the threshold
\* and cooldown overrides of the orchestrator, is accepted; with a
\* threshold of 5% a drop of 10% triggers; the property keeps the default
\* threshold for later calls.
C14_AsStated ==
    (ret.op = "track_property" /\ ret.overrides # NoOverrides) =>
        /\ ~ret.raised
        /\ (ret.before.prices # <<>> /\ Previous = 100 /\ ret.price = 90) => ret.triggered
        /\ PropertyOf(alerts, ret.property_id).alert_threshold = alert_threshold

\* C15: the history of every property has at most 10 entries, and they are
\* the last entries appended for that property, in order of arrival.
C15_HistoryBounded ==
    \A p \in DOMAIN alerts :
        /\ Len(alerts[p].prices) <= 10
        /\ alerts[p].prices = LastN(appended[p], 10)

\* C15 witness: a property observed more than 10 times, whose oldest
\* observation is gone
C15_Witness ==
    \E p \in DOMAIN alerts :
        /\ Len(appended[p]) > 10
        /\ Len(alerts[p].prices) = 10
        /\ alerts[p].prices # SubSeq(appended[p], 1, 10)

(***************************************************************************)
(* SpecValidate: find_best_deals computes the nightly cap and validates    *)
(* a list of raw listings.                                                 *)
(***************************************************************************)
\* a listing as the booking fallback returns it (booking_scraper.py:321-333),
\* priced at the cap of 250 euros for 4 nights
GoodRaw ==
    [payload |-> Flag(TRUE), name |-> Text("Hotel"), location |-> Text("d1"),
     source |-> Text("fallback"), url |-> Text("https://www.booking.com"),
     price_per_night |-> Num(62), rating |-> Num(42), reviews |-> Num(45),
     pet_friendly |-> Flag(TRUE)]

\* ways a raw listing differs from it: a key and its value
Faults ==
    { <<"payload", Flag(FALSE)>>,
      <<"name", Absent>>, <<"name", Text(" ")>>,
      <<"location", Absent>>, <<"source", Text("")>>, <<"url", Absent>>,
      <<"price_per_night", Absent>>, <<"price_per_night", Num(0)>>,
      <<"price_per_night", Text("n/a")>>,
      <<"price_per_night", Num(63)>>, <<"price_per_night", Num(251)>>,
      <<"rating", Num(51)>>, <<"rating", Num(0 - 1)>>, <<"rating", Absent>>,
      <<"reviews", Num(0 - 1)>>, <<"reviews", Absent>>,
      <<"pet_friendly", Flag(FALSE)>>, <<"pet_friendly", Absent>>,
      <<"pet_friendly", Text("yes")>> }

WithFault(deal, f) == [deal EXCEPT ![f[1]] = f[2]]

OneFault == {GoodRaw} \cup {WithFault(GoodRaw, f) : f \in Faults}

TwoFaults == {WithFault(WithFault(GoodRaw, f), g) : f, g \in Faults}

RawLists ==
    {<<>>} \cup {<<a>> : a \in TwoFaults} \cup {<<a, b, a>> : a, b \in OneFault}

\* budget, budget_type and the days between checkin and checkout
BudgetChoices ==
    { <<250, "night", 4>>, <<250, "total", 4>>, <<1000, "total", 7>>, <<250, "total", 0>> }

ValidateBudget == \E choice \in BudgetChoices : SetBudget(choice[1], choice[2], choice[3])

ValidateAggregated == \E raw \in RawLists : Aggregated(raw)

ValidateStep == \E pets \in {0, 1} : ValidateDeals(pets)

NextValidate == ValidateBudget \/ ValidateAggregated \/ ValidateStep

SpecValidate == InitMetrics /\ [][NextValidate]_vars

(***************************************************************************)
(* Claims on the validation                                                *)
(***************************************************************************)
IsValidateCall == ret.op = "_validate_deals"

\* a key holds a text that is not empty or blank
HasText(v) == v.kind # "absent" /\ ~(v.kind = "str" /\ v.s \in {"", " "})

\* the checks a raw listing fails, each on its own
FailedChecks(deal, pets, cap) ==
    {c \in {"invalid_payload", "missing_name", "missing_location", "missing_source",
            "missing_url", "invalid_price", "over_budget", "invalid_rating",
            "invalid_reviews", "not_pet_friendly"} :
        \/ c = "invalid_payload" /\ deal.payload # Flag(TRUE)
        \/ c = "missing_name" /\ ~HasText(deal.name)
        \/ c = "missing_location" /\ ~HasText(deal.location)
        \/ c = "missing_source" /\ ~HasText(deal.source)
        \/ c = "missing_url" /\ ~HasText(deal.url)
        \/ c = "invalid_price" /\ (deal.price_per_night.kind # "num" \/ deal.price_per_night.n <= 0)
        \/ c = "over_budget" /\ deal.price_per_night.kind = "num" /\ deal.price_per_night.n > cap
        \/ c = "invalid_rating" /\ deal.rating.kind = "num"
                                /\ (deal.rating.n < 0 \/ deal.rating.n > 50)
        \/ c = "invalid_reviews" /\ deal.reviews.kind = "num" /\ deal.reviews.n < 0
        \/ c = "not_pet_friendly" /\ pets > 0 /\ deal.pet_friendly # Flag(TRUE)}

StatedOrder ==
    <<"missing_name", "missing_location", "missing_source", "missing_url", "invalid_price",
      "over_budget", "invalid_rating", "invalid_reviews", "not_pet_friendly">>

\* the first check of the order that fails, or "valid"
FirstFailing(order, failed) ==
    IF \E i \in DOMAIN order : order[i] \in failed
    THEN order[CHOOSE i \in DOMAIN order :
                    order[i] \in failed /\ \A j \in 1..(i - 1) : order[j] \notin failed]
    ELSE "valid"

RECURSIVE SumCounts(_, _)
SumCounts(f, keys) ==
    IF keys = {} THEN 0
    ELSE LET k == CHOOSE x \in keys : TRUE IN f[k] + SumCounts(f, keys \ {k})

\* the report classifies the raw listings by the first failing check of order
ClassifiedBy(order) ==
    LET stated(i) == FirstFailing(order, FailedChecks(ret.raw[i], ret.pets, budget_max))
        reasons   == ret.report.rejected_reasons
    IN  /\ ret.report.total_raw = Len(ret.raw)
        /\ ret.report.total_raw = ret.report.valid_count + ret.report.rejected_count
        /\ ret.report.valid_count = Cardinality({i \in DOMAIN ret.raw : stated(i) = "valid"})
        /\ Len(all_deals) = ret.report.valid_count
        /\ DOMAIN reasons = {stated(i) : i \in DOMAIN ret.raw} \ {"valid"}
        /\ \A r \in DOMAIN reasons :
              reasons[r] = Cardinality({i \in DOMAIN ret.raw : stated(i) = r})
        /\ SumCounts(reasons, DOMAIN reasons) = ret.report.rejected_count

IsStatedCap(cap, budget, budget_type, stay) ==
    LET nights == IF stay >= 1 THEN stay ELSE 1
        diff   == IF budget >= cap * nights THEN budget - cap * nights ELSE cap * nights - budget
    IN  IF budget_type = "total"
        THEN /\ 2 * diff <= nights
             /\ 2 * diff = nights => cap % 2 = 0
        ELSE cap = budget

SharedDeal(city) ==
    [name |-> "Hotel", location |-> city, source |-> Source("booking (html)"),
     url |-> "https://www.booking.com/hotel/nl/h1",
     price_per_night |-> 95, rating10 |-> 47, reviews |-> 80, pet_friendly |-> TRUE]

DedupResults(city) == {<<>>, <<SharedDeal(city)>>}

DedupTaskReturns ==
    \E i \in DOMAIN Cities : \E deals \in DedupResults(Cities[i]) : TaskReturns(i, deals)

NextDedup ==
    \/ AgentCall
    \/ AgentTaskStart
    \/ AgentTaskRaises
    \/ DedupTaskReturns
    \/ Aggregate
    \/ Finish
    \/ AgentTick

SpecDedup == InitMetrics /\ [][NextDedup]_vars

\* the listings of the call have been aggregated and validated
AfterValidation == pc \in {"weather", "returned", "raised"}

NoSharedUrl(deals) ==
    \A i, j \in DOMAIN deals : i # j => deals[i].url # deals[j].url

\* C18 as stated: the ranked result never holds two deals with the same
\* url: neither the result returned, nor the ranking of the listings that
\* the call has aggregated and validated.
C18_AsStated ==
    /\ NoSharedUrl(ranked)
    /\ AfterValidation => NoSharedUrl(rank_deals(all_deals))

(***************************************************************************)
(* The source scrapers (booking_scraper.py, patchright_airbnb_scraper.py)  *)
(* and the search of one destination.  The outcome of a network strategy   *)
(* is an input: it raises, returns nothing, or returns listings.           *)
(***************************************************************************)
\* BookingScraper._get_fallback_data
BookingFallback(city) ==
    [name |-> "Hotel Zentrum (Fallback)", location |-> city, source |-> Source("fallback"),
     url |-> "https://www.booking.com",
     price_per_night |-> 95, rating10 |-> 42, reviews |-> 45, pet_friendly |-> TRUE]

\* PatchrightAirbnbScraper._get_fallback_data
AirbnbFallback(city) ==
    [name |-> "Haus (Fallback)", location |-> city, source |-> Source("fallback"),
     url |-> "https://www.airbnb.com",
     price_per_night |-> 120, rating10 |-> 45, reviews |-> 10, pet_friendly |-> TRUE]

\* a listing parsed by PatchrightAirbnbScraper._parse_markdown
AirbnbDeal(city) ==
    [name |-> "Stay", location |-> city, source |-> Source("airbnb (cloud)"),
     url |-> "https://www.airbnb.com/rooms/1",
     price_per_night |-> 110, rating10 |-> 48, reviews |-> 20, pet_friendly |-> TRUE]

\* the strategies of search_booking, in the order of its list
BookingStrategies == <<"curl", "firecrawl">>

\* the strategies of search_airbnb, in the order of its list
AirbnbStrategies == <<"curl", "firecrawl", "fallback">>

\* the strategies tried by the loop "for name, strategy in strategies",
\* which returns at the first strategy that yields listings
Attempted(strategies, outcome) ==
    IF \E i \in DOMAIN strategies : outcome[strategies[i]] = "deals"
    THEN SubSeq(strategies, 1,
                CHOOSE i \in DOMAIN strategies :
                    /\ outcome[strategies[i]] = "deals"
                    /\ \A j \in 1..(i - 1) : outcome[strategies[j]] # "deals")
    ELSE strategies

Succeeded(strategies, outcome) == outcome[strategies[Len(Attempted(strategies, outcome))]] = "deals"

\* the duration of an attempt, in seconds
AttemptSeconds == 30

\* search_booking: the listings returned
booking_deals(city, outcome) ==
    IF Succeeded(BookingStrategies, outcome) THEN <<SharedDeal(city)>> ELSE <<BookingFallback(city)>>

RECURSIVE RecordedAll(_, _, _, _)
\* scraper_metrics.record for each attempt of a list, in order
RecordedAll(recs, source, names, outcome) ==
    IF names = <<>> THEN recs
    ELSE RecordedAll(RecordedList(recs, source, Head(names), outcome[Head(names)] = "deals", AttemptSeconds),
                     source, Tail(names), outcome)

\* search_booking: the records afterwards; the fallback is recorded, as a
\* success, when no strategy yielded listings
booking_records(recs, outcome) ==
    LET tried == RecordedAll(recs, "booking", Attempted(BookingStrategies, outcome), outcome)
    IN  IF Succeeded(BookingStrategies, outcome) THEN tried
        ELSE RecordedList(tried, "booking", "fallback", TRUE, 0)

\* search_airbnb: the listings returned; awaiting the list that the
\* 'fallback' entry returns raises TypeError, which the loop catches, and
\* the fallback listings are returned after the loop
airbnb_deals(city, outcome) ==
    IF Succeeded(AirbnbStrategies, outcome) THEN <<AirbnbDeal(city)>> ELSE <<AirbnbFallback(city)>>

\* the outcomes the strategies can have: the booking firecrawl strategy
\* raises when it parses nothing, the airbnb curl strategy never returns
\* listings, the airbnb 'fallback' entry always raises
BookingOutcomes ==
    {[curl |-> c, firecrawl |-> f] : c \in {"raise", "empty", "deals"}, f \in {"raise", "deals"}}

AirbnbOutcomes ==
    {[curl |-> c, firecrawl |-> f, fallback |-> "raise"] :
        c \in {"raise", "empty"}, f \in {"raise", "empty", "deals"}}

\* _search_single_city: the booking listings, the airbnb listings and the
\* (empty) Center Parcs listings
single_city_deals(city, booking, airbnb) == booking_deals(city, booking) \o airbnb_deals(city, airbnb)

\* _search_single_city: the records afterwards, with the 'smart_chain'
\* record of each source
single_city_records(recs, city, booking, airbnb) ==
    RecordedList(
        RecordedList(booking_records(recs, booking), "booking", "smart_chain",
                     booking_deals(city, booking) # <<>>, AttemptSeconds),
        "airbnb", "smart_chain", airbnb_deals(city, airbnb) # <<>>, AttemptSeconds)

\* _search_with_delay for one destination, from the cache lookup to its
\* return: on a miss both sources are searched and a non-empty list is cached
SearchWithDelay(city, booking, airbnb) ==
    LET key    == make_key(city, Pets, budget_max)
        cached == CacheGetResult(data, key)
        deals  == single_city_deals(city, booking, airbnb)
    IN  /\ pc = "idle"
        /\ IF cached.some
           THEN /\ data' = CacheAfterGet(data, key)
                /\ ret' = [op |-> "_search_with_delay", city |-> city, key |-> key, hit |-> TRUE,
                           booking |-> booking, airbnb |-> airbnb,
                           booking_attempted |-> <<>>, airbnb_attempted |-> <<>>,
                           raised |-> FALSE, deals |-> TaggedCopy(cached.value)]
                /\ UNCHANGED <<records, disk, lastSet>>
           ELSE /\ records' = single_city_records(records, city, booking, airbnb)
                /\ IF deals # <<>>
                   THEN /\ data' = CacheAfterSet(CacheAfterGet(data, key), key, deals)
                        /\ disk' = SavedFile(data')
                        /\ lastSet' = Put(lastSet, key, [value |-> deals, at |-> now])
                   ELSE /\ data' = CacheAfterGet(data, key)
                        /\ UNCHANGED <<disk, lastSet>>
                /\ ret' = [op |-> "_search_with_delay", city |-> city, key |-> key, hit |-> FALSE,
                           booking |-> booking, airbnb |-> airbnb,
                           booking_attempted |-> Attempted(BookingStrategies, booking),
                           airbnb_attempted |-> Attempted(AirbnbStrategies, airbnb),
                           raised |-> FALSE, deals |-> deals]
        /\ UNCHANGED <<now, agentVars, alertVars, paceVars>>

(***************************************************************************)
(* SpecSources: destinations are searched one after the other while time   *)
(* passes.                                                                 *)
(***************************************************************************)
MaxSourceRecords == 5

MaxSourceTicks == 1

SourcesSearch ==
    /\ Len(records) < MaxSourceRecords
    /\ \E i \in DOMAIN Cities : \E booking \in BookingOutcomes : \E airbnb \in AirbnbOutcomes :
          SearchWithDelay(Cities[i], booking, airbnb)

SourcesTick == Tick(ttl_minutes, MaxSourceTicks * ttl_minutes)

NextSources == SourcesSearch \/ SourcesTick

SpecSources == InitMetrics /\ [][NextSources]_vars

\* every network strategy of both sources raised or returned nothing
AllStrategiesFailed(call) ==
    /\ \A i \in DOMAIN BookingStrategies : call.booking[BookingStrategies[i]] # "deals"
    /\ \A i \in DOMAIN AirbnbStrategies : call.airbnb[AirbnbStrategies[i]] # "deals"

\* C19 as stated: a destination for which every fetch strategy of every
\* source failed or returned nothing contributes no listing, nothing is
\* cached for it, and its search does not raise.
C19_AsStated ==
    (ret.op = "_search_with_delay" /\ ~ret.hit /\ AllStrategiesFailed(ret)) =>
        /\ ~ret.raised
        /\ ret.deals = <<>>
        /\ ret.key \notin DOMAIN data

IsPrefix(s, t) == Len(s) <= Len(t) /\ s = SubSeq(t, 1, Len(s))

\* C20 as stated: when a destination is searched, the booking strategies
\* are attempted in the order that get_strategy_order returns for the
\* source at that moment.
C20_AsStated ==
    [][(ret'.op = "_search_with_delay" /\ ~ret'.hit) =>
          IsPrefix(ret'.booking_attempted,
                   get_strategy_order("booking", Some(BookingStrategies \o <<"fallback">>)))]_vars

(***************************************************************************)
(* SpecStorage: the cache, the metrics store and the price alerts are      *)
(* written to while the disk is writable or not.  A write to a disk that   *)
(* is not writable makes open(file, 'w') raise an IOError and leaves the   *)
(* file as it was.                                                         *)
(***************************************************************************)
MaxStorageRecords == 2

MaxStoragePrices == 2

\* the file after Cache._save_to_disk: the IOError is caught and passed
cache_file_saved(d, file, writable) == IF writable THEN SavedFile(d) ELSE file

\* whether StrategyMetrics._save raises: the IOError is caught and passed
metrics_save_raises(writable) == FALSE

\* whether PriceAlertSystem._save_alerts raises: open is not guarded
save_alerts_raises(writable) == ~writable

\* cache.set(key, value) on a disk that is writable or not
StorageCacheSet(key, value, writable) ==
    /\ data' = CacheAfterSet(data, key, value)
    /\ disk' = cache_file_saved(data', disk, writable)
    /\ lastSet' = Put(lastSet, key, [value |-> value, at |-> now])
    /\ ret' = [op |-> "set", writable |-> writable, raised |-> FALSE, subject |-> key, stored |-> value]
    /\ UNCHANGED <<now, records, agentVars, alertVars, paceVars>>

\* scraper_metrics.record(source, strategy, success, duration) on a disk
\* that is writable or not
StorageRecord(source, strategy, success, duration, writable) ==
    /\ records' = RecordedList(records, source, strategy, success, duration)
    /\ ret' = [op |-> "record", writable |-> writable, raised |-> metrics_save_raises(writable),
               subject |-> source, stored |-> <<strategy>>]
    /\ UNCHANGED <<now, cacheVars, agentVars, alertVars, paceVars>>

\* price_alerts.track_property(property_id, name, price, url, source) on a
\* disk that is writable or not: the table is changed in memory before
\* _save_alerts runs
StorageTrack(property_id, price, writable) ==
    LET before == PropertyOf(alerts, property_id)
    IN  /\ alerts' = Put(alerts, property_id, TrackedProperty(before, price, now))
        /\ alerts_file' = IF writable THEN File(alerts') ELSE alerts_file
        /\ appended' = Put(appended, property_id,
                           Append(IF property_id \in DOMAIN appended THEN appended[property_id] ELSE <<>>,
                                  PriceEntry(price, now)))
        /\ ret' = [op |-> "track_property", writable |-> writable, raised |-> save_alerts_raises(writable),
                   subject |-> property_id, stored |-> <<price>>]
        /\ UNCHANGED <<now, records, cacheVars, agentVars, paceVars>>

StorageSet == \E key \in {"k1", "k2"}, writable \in BOOLEAN : StorageCacheSet(key, <<"deal">>, writable)

StorageRec ==
    /\ Len(records) < MaxStorageRecords
    /\ \E success \in BOOLEAN, writable \in BOOLEAN : StorageRecord("airbnb", "curl-cffi", success, 30, writable)

StorageTrk ==
    /\ Len(get_history("p1")) < MaxStoragePrices
    /\ \E price \in {100, 70}, writable \in BOOLEAN : StorageTrack("p1", price, writable)

NextStorage == StorageSet \/ StorageRec \/ StorageTrk

SpecStorage == InitMetrics /\ [][NextStorage]_vars

\* the last step wrote to a store while the disk was not writable
FailedWrite == ret.op \in {"set", "record", "track_property"} /\ ~ret.writable

\* the store in memory holds what the last call was given
InMemoryUpdated ==
    CASE ret.op = "set" -> ret.subject \in DOMAIN data /\ data[ret.subject].value = ret.stored
      [] ret.op = "record" -> /\ records # <<>>
                              /\ records[Len(records)].source = ret.subject
                              /\ records[Len(records)].strategy = ret.stored[1]
      [] ret.op = "track_property" -> /\ get_history(ret.subject) # <<>>
                                      /\ get_history(ret.subject)[Len(get_history(ret.subject))].price = ret.stored[1]

\* C21 as stated: a write to durable storage that fails never raises out of
\* Cache.set, StrategyMetrics.record or track_property, and the state in
\* memory is updated
C21_AsStated == FailedWrite => ~ret.raised /\ InMemoryUpdated

(***************************************************************************)
(* SpecDelayer: rate limits are signalled to the delayer, paced calls wait *)
(* and time passes.                                                        *)
(***************************************************************************)
MaxDelayerSignals == 6

MaxDelayerWaits == 3

MaxDelayerTicks == 2

DelayerSignal ==
    /\ notified.calls < MaxDelayerSignals
    /\ DelayerNotify

DelayerPace ==
    /\ notified.waits < MaxDelayerWaits
    /\ \E long \in BOOLEAN : DelayerWait(long)

DelayerTick ==
    \E seconds \in {decay_seconds, decay_seconds + 1} :
        ClockTick(seconds, ClockStart + MaxDelayerTicks * (decay_seconds + 1))

NextDelayer == DelayerSignal \/ DelayerPace \/ DelayerTick

SpecDelayer == InitMetrics /\ [][NextDelayer]_vars

\* the delay is the stated multiple of its base at the level: delay = base * (1 + 0.5 * level)
IsStatedDelay(delay, base, level) == delay.n * 2 = base * (2 + level) * delay.d

\* C22: pressure_level is an integer in 0..5 and min_delay, max_delay are
\* base * (1 + 0.5 * pressure_level) in every state notify_pressure() and
\* wait() lead to: 1.5 times the base after one notify_pressure() from the
\* baseline, twice the base after two
C22_DelaysFollowPressure ==
    /\ delayer.pressure_level \in 0..5
    /\ IsStatedDelay(delayer.min_delay, delayer.base_min_delay, delayer.pressure_level)
    /\ IsStatedDelay(delayer.max_delay, delayer.base_max_delay, delayer.pressure_level)
    /\ ret.op = "notify_pressure" /\ ret.before = 0 =>
           /\ delayer.min_delay.n * 2 = 3 * delayer.base_min_delay * delayer.min_delay.d
           /\ delayer.max_delay.n * 2 = 3 * delayer.base_max_delay * delayer.max_delay.d
    /\ ret.op = "notify_pressure" /\ ret.before = 1 =>
           /\ delayer.min_delay.n = 2 * delayer.base_min_delay * delayer.min_delay.d
           /\ delayer.max_delay.n = 2 * delayer.base_max_delay * delayer.max_delay.d

\* after a wait(), a second notify_pressure() has doubled the delays
C22_Witness ==
    /\ ret.op = "notify_pressure"
    /\ ret.before = 1
    /\ delayer.max_delay = Rat(2 * delayer.base_max_delay, 1)
    /\ delayer.last_request_time > 0

\* C23 as stated: a wait() made while pressure_level > 0 and 5 minutes have
\* elapsed since the last notify_pressure() lowers the level by exactly one;
\* no wait() lowers it by more than one, raises it or takes it below 0
C23_AsStated ==
    [][ret'.op = "wait" =>
          /\ (delayer.pressure_level > 0 /\ clock - notified.at >= decay_seconds
                => delayer'.pressure_level = delayer.pressure_level - 1)
          /\ delayer'.pressure_level <= delayer.pressure_level
          /\ delayer'.pressure_level >= delayer.pressure_level - 1
          /\ delayer'.pressure_level >= 0]_vars

\* C30 as stated: max_delay never exceeds 3 times base_max_delay
C30_AsStated == delayer.max_delay.n <= 3 * delayer.base_max_delay * delayer.max_delay.d

(***************************************************************************)
(* SpecBackoff: the backoff is asked for its delay, waited on and reset.   *)
(***************************************************************************)
MaxAttempt == 6

MaxBackoffSeconds == 300

BackoffAsk == \E high \in BOOLEAN : BackoffGetDelay(high)

BackoffSleep ==
    /\ backoff.attempt < MaxAttempt
    /\ clock < ClockStart + MaxBackoffSeconds
    /\ \E high \in BOOLEAN : BackoffWait(high)

NextBackoff == BackoffAsk \/ BackoffSleep \/ BackoffReset

SpecBackoff == InitMetrics /\ [][NextBackoff]_vars

\* d = min(120 s, 2^attempt * base_delay) for the attempt count of the last get_delay()
StatedDelay == Min(120, Pow2(ret.attempt) * backoff.base_delay)

\* C24: get_delay() returns a value between d = min(120 s, 2^attempt *
\* base_delay) and d + min(10 s, 0.3 * d), never more than 130 s, and leaves
\* the attempt counter as it was
C24_DelayWithinJitter ==
    ret.op = "get_delay" =>
        /\ StatedDelay * ret.result.d <= ret.result.n
        /\ 10 * (ret.result.n - StatedDelay * ret.result.d) <= Min(100, 3 * StatedDelay) * ret.result.d
        /\ ret.result.n <= 130 * ret.result.d
        /\ backoff.attempt = ret.attempt

\* get_delay() at an attempt count where the exponential part is capped
\* has returned the cap plus the whole jitter
C24_Witness ==
    /\ ret.op = "get_delay"
    /\ Pow2(ret.attempt) * backoff.base_delay > 120
    /\ ret.result = Rat(130, 1)

(***************************************************************************)
(* SpecRequester: requests are made one after the other through the smart  *)
(* requester; each call of make_request returns or raises.                 *)
(***************************************************************************)
MaxRequests == 2

\* what make_request() raises ("" when it returns)
RequestErrors == {"", "429 Too Many Requests", "Rate limit exceeded", "Blocked"}

RequestBegin ==
    /\ req.started < MaxRequests
    /\ \E cache_key \in {"", "k1"}, long \in BOOLEAN : RequestStart(cache_key, long)

RequestTurn == \E error \in RequestErrors, high \in BOOLEAN : RequestCall(error, high)

NextRequester == RequestBegin \/ RequestTurn

SpecRequester == InitMetrics /\ [][NextRequester]_vars

C33_AsStated ==
    (req.pc = "raised" /\ req.error = "Max retries exceeded") => req.calls = backoff.max_retries

(***************************************************************************)
(* SpecRank: the lists of two destinations arrive in either order, gather  *)
(* hands them on in the order of the destinations, and the flattened list  *)
(* is ranked.                                                              *)
(***************************************************************************)
MaxRankList == 2

RankDeal(name, price, reviews) ==
    [name |-> name, location |-> "d1", source |-> Source("booking"), url |-> name,
     price_per_night |-> price, rating10 |-> 40, reviews |-> reviews, pet_friendly |-> TRUE]

\* scores 62.3, 48.37 and 48.44 (both shown as 48.4), and a listing without
\* a name
RankListings ==
    {RankDeal("A", 60, 10), RankDeal("C", 90, 11), RankDeal("D", 90, 12), RankDeal("", 50, 10)}

RankLists(longest) == UNION {[1..n -> RankListings] : n \in 0..longest}

\* asyncio.gather(*tasks) is awaited: no destination has completed
GatherStart(lists) ==
    /\ ret = NoRet
    /\ ret' = [op |-> "gather", lists |-> lists, results |-> [i \in DOMAIN lists |-> <<>>],
               completed |-> <<>>, input |-> <<>>, result |-> <<>>]
    /\ UNCHANGED <<now, records, cacheVars, agentVars, alertVars, paceVars>>

\* the task of destination i completes: gather keeps its list at place i
GatherComplete(i) ==
    /\ ret.op = "gather"
    /\ i \in DOMAIN ret.lists
    /\ i \notin Range(ret.completed)
    /\ ret' = [ret EXCEPT !.results[i] = ret.lists[i], !.completed = Append(@, i)]
    /\ UNCHANGED <<now, records, cacheVars, agentVars, alertVars, paceVars>>

\* gather has returned: the lists are flattened and ranker.rank_deals is called
RankCall ==
    /\ ret.op = "gather"
    /\ Len(ret.completed) = Len(ret.lists)
    /\ ret' = [ret EXCEPT !.op = "rank_deals", !.input = Flatten(ret.results),
                          !.result = rank_deals(Flatten(ret.results))]
    /\ UNCHANGED <<now, records, cacheVars, agentVars, alertVars, paceVars>>

RankGather == \E first \in RankLists(MaxRankList), second \in RankLists(2) : GatherStart(<<first, second>>)

RankComplete == \E i \in 1..2 : GatherComplete(i)

NextRank == RankGather \/ RankComplete \/ RankCall

SpecRank == InitMetrics /\ [][NextRank]_vars

\* the number of places of list that hold deal
Occurrences(list, deal) == Cardinality({i \in DOMAIN list : list[i] = deal})

\* C26: rank_deals returns every input listing that has a name exactly
\* once and no other, by non-increasing rank_score; the result is that of
\* the destinations' lists taken in the order of the destinations, whatever
\* the order in which they completed
C26_RankedOnceByScore ==
    ret.op = "rank_deals" =>
        /\ \A deal \in RankListings :
              Occurrences(ret.result, deal) = IF deal.name # "" THEN Occurrences(ret.input, deal) ELSE 0
        /\ \A i \in 1..(Len(ret.result) - 1) :
              rank_score_tenths(ret.result[i]) >= rank_score_tenths(ret.result[i + 1])
        /\ ret.input = ret.lists[1] \o ret.lists[2]

\* the second destination completed first, the first one's listing ranks
\* below the second one's, a listing without a name was dropped, and two
\* listings of different score but equal rank_score kept their input order
C26_Witness ==
    /\ ret.op = "rank_deals"
    /\ ret.completed = <<2, 1>>
    /\ ret.lists[1] = <<RankDeal("C", 90, 11), RankDeal("", 50, 10)>>
    /\ ret.lists[2] = <<RankDeal("D", 90, 12), RankDeal("A", 60, 10)>>
    /\ ret.result = <<RankDeal("A", 60, 10), RankDeal("C", 90, 11), RankDeal("D", 90, 12)>>
    /\ rank_score(RankDeal("C", 90, 11)) < rank_score(RankDeal("D", 90, 12))

(***************************************************************************)
(* The strategies a scraper search invokes (SpecSources)                   *)
(***************************************************************************)
\* search_booking: the strategies invoked, in order: those of the loop and,
\* when none yielded listings, _get_fallback_data after the loop
booking_invoked(outcome) ==
    Attempted(BookingStrategies, outcome)
        \o (IF Succeeded(BookingStrategies, outcome) THEN <<>> ELSE <<"fallback">>)

\* search_airbnb: the strategies invoked, in order: those of the loop, whose
\* list ends with _get_fallback_data itself, and, when none yielded
\* listings, _get_fallback_data once more after the loop
airbnb_invoked(outcome) ==
    Attempted(AirbnbStrategies, outcome)
        \o (IF Succeeded(AirbnbStrategies, outcome) THEN <<>> ELSE <<"fallback">>)

\* curl, then firecrawl, then the static fallback
StatedStrategies == <<"curl", "firecrawl", "fallback">>

\* the strategies were invoked in the stated order, each at most once and a
\* later one only after the earlier ones raised or returned nothing; the
\* listings returned are those of the last one invoked
StatedSearch(invoked, outcome, returned, fallback) ==
    /\ IsPrefix(invoked, StatedStrategies)
    /\ \A i \in 1..(Len(invoked) - 1) : invoked[i] # "fallback" => outcome[invoked[i]] # "deals"
    /\ IF invoked[Len(invoked)] = "fallback"
       THEN returned = <<fallback>>
       ELSE outcome[invoked[Len(invoked)]] = "deals" /\ returned # <<>> /\ returned # <<fallback>>

\* C27 as stated: search_booking and search_airbnb try curl, then firecrawl,
\* then the static fallback, each at most once; the first non-empty result
\* is returned without a later strategy being invoked, and the fallback
\* data when all of them fail
C27_AsStated ==
    (ret.op = "_search_with_delay" /\ ~ret.hit) =>
        /\ StatedSearch(booking_invoked(ret.booking), ret.booking,
                        booking_deals(ret.city, ret.booking), BookingFallback(ret.city))
        /\ StatedSearch(airbnb_invoked(ret.airbnb), ret.airbnb,
                        airbnb_deals(ret.city, ret.airbnb), AirbnbFallback(ret.city))

(***************************************************************************)
(* The default strategies of a source (SpecOrder)                          *)
(***************************************************************************)
\* C28 as stated: get_strategy_order('airbnb') without a strategy list
\* considers 'patchright': with 'patchright' at 100% and 'curl-cffi' at 0%
\* in the window, 'patchright' comes first and 'fallback' last
C28_AsStated ==
    (/\ IsOrderCall
     /\ ret.source = "airbnb"
     /\ ~ret.available.given
     /\ AllSucceeded("airbnb", "patchright")
     /\ AllFailed("airbnb", "curl-cffi"))
        => /\ ret.result # <<>>
           /\ ret.result[1] = "patchright"
           /\ ret.result[Len(ret.result)] = "fallback"

(***************************************************************************)
(* Strategies whose records have aged out of the window (SpecOrder)        *)
(***************************************************************************)
\* the strategy has records for the source, every one of them older than
\* the 60-minute window
AgedOut(source, strategy) ==
    /\ \E i \in DOMAIN records : records[i].source = source /\ records[i].strategy = strategy
    /\ \A i \in DOMAIN records :
          (records[i].source = source /\ records[i].strategy = strategy)
              => now - records[i].timestamp > WINDOW_MINUTES

\* C35: a non-fallback strategy whose every record for the source is older
\* than the 60-minute window is scored 0.5, like a strategy never tried, and
\* get_strategy_order places it before every non-fallback strategy whose
\* score in the window is below 0.5.
C35_AgedOutProbedAgain ==
    IsOrderCall =>
        \A a, b \in Range(Considered) \ {"fallback"} :
            (AgedOut(ret.source, a) /\ RatLess(StatedScore(ret.source, b), Rat(1, 2)))
                => /\ RatEq(StrategyScore(ret.source, a), Rat(1, 2))
                   /\ IndexOf(ret.result, a) > 0
                   /\ IndexOf(ret.result, b) > 0
                   /\ IndexOf(ret.result, a) < IndexOf(ret.result, b)

\* C35 witness: a strategy that only failed, all its failures older than
\* the window, is given after a strategy that failed within the window and
\* is returned before it.
C35_Witness ==
    /\ IsOrderCall
    /\ \E a, b \in Range(Considered) \ {"fallback"} :
          /\ AgedOut(ret.source, a)
          /\ \A i \in DOMAIN records : records[i].strategy = a => ~records[i].success
          /\ AllFailed(ret.source, b)
          /\ IndexOf(Considered, b) < IndexOf(Considered, a)
          /\ IndexOf(ret.result, a) < IndexOf(ret.result, b)

(***************************************************************************)
(* SpecTracker: runs are started, counted on, given attributes and ended,  *)
(* in any interleaving, also for run ids that have ended.                  *)
(***************************************************************************)
MaxRuns == 2

MaxCount == 1

\* the final attributes find_best_deals passes with each status
FinalAttrs(status) ==
    IF status = "ok" THEN [k \in {"alert_count"} |-> "0"] ELSE [k \in {"error"} |-> "failed"]

CountOf(state, key) == IF key \in DOMAIN state.counters THEN state.counters[key] ELSE 0

TrackerStart ==
    /\ tracker.issued < MaxRuns
    /\ StartRun

TrackerIncr ==
    \E run_id \in 1..tracker.issued :
        /\ run_id \in DOMAIN tracker.active => CountOf(tracker.active[run_id], "deals") < MaxCount
        /\ Incr(run_id, "deals")

TrackerSetAttr == \E run_id \in 1..tracker.issued : SetAttr(run_id, "alert_count", "1")

TrackerEnd ==
    \E run_id \in 1..tracker.issued, status \in {"ok", "error"} : EndRun(run_id, status, FinalAttrs(status))

NextTracker == TrackerStart \/ TrackerIncr \/ TrackerSetAttr \/ TrackerEnd

SpecTracker == InitMetrics /\ [][NextTracker]_vars

\* the run ids of the summaries retained
HistoryIds(t) == [i \in DOMAIN t.history |-> t.history[i].run_id]

C34_AsStated ==
    (ret.op = "set") =>
        /\ \A k \in DOMAIN data : ~Expired(data[k].timestamp)
        /\ \A k \in DOMAIN disk.entries : ~Expired(fromisoformat(disk.entries[k].timestamp))

(***************************************************************************)
(* The cache writes of the concurrent destination tasks (SpecAgent).       *)
(***************************************************************************)
\* the tasks of the current call whose lookup missed and whose search
\* returned a non-empty list
CacheWriters ==
    {i \in DOMAIN tasks : /\ tasks[i].fetched
                          /\ tasks[i].result.kind = "list"
                          /\ tasks[i].result.deals # <<>>}

\* the entry of task i is in the table and in the file, with the task's list
EntryHeld(i) ==
    /\ tasks[i].key \in DOMAIN data
    /\ data[tasks[i].key].value = tasks[i].result.deals
    /\ disk.exists
    /\ tasks[i].key \in DOMAIN disk.entries
    /\ disk.entries[tasks[i].key].value = tasks[i].result.deals

\* C31: under every interleaving of the destination tasks of a call, the
\* cache is written once for each destination whose lookup missed and whose
\* result is non-empty and for no other destination, and the table and the
\* file hold the entry of every such destination from its write onwards, so
\* also after the batch: no entry is lost to the write of another task.
C31_WritesKept ==
    (pc # "idle") =>
        /\ run.cache_sets = Cardinality(CacheWriters)
        /\ \A i \in CacheWriters : EntryHeld(i)

\* C31 witness: the batch of a second search is complete; one destination
\* was served from the cache and the two others were fetched and written.
C31_Witness ==
    /\ calls = 2
    /\ \A i \in DOMAIN tasks : tasks[i].pc = "done"
    /\ Cardinality(CacheWriters) = 2
    /\ \E i \in DOMAIN tasks : tasks[i].sawFresh /\ ~tasks[i].fetched

(***************************************************************************)
(* SpecUntrusted: observations of two properties that include prices of 0  *)
(* and below.                                                              *)
(***************************************************************************)
MaxUntrustedCalls == 3

UntrustedPrices == {-10, 0, 40, 100}

UntrustedTrack ==
    /\ AppendedCount < MaxUntrustedCalls
    /\ \E property_id \in Properties : \E price \in UntrustedPrices :
          TrackProperty(property_id, price, NoOverrides)

NextUntrusted == UntrustedTrack

SpecUntrusted == InitMetrics /\ [][NextUntrusted]_vars

\* C32 as stated: a track_property call whose previous recorded price or
\* current price is <= 0 neither fails nor triggers an alert.
C32_AsStated ==
    (/\ ret.op = "track_property"
     /\ ret.before.prices # <<>>
     /\ (Previous <= 0 \/ ret.price <= 0))
        => (~ret.raised /\ ~ret.triggered)

(***************************************************************************)
(* SpecBudget: a listing in some currency, with or without its own         *)
(* exchange rate, is validated against the nightly cap and then ranked.    *)
(***************************************************************************)
\* DealRanker.fx_rates_to_eur.get(code, 1.0)
fx_rates_to_eur(code) ==
    CASE code = "EUR" -> Rat(1000, 1000)
      [] code = "USD" -> Rat(920, 1000)
      [] code = "GBP" -> Rat(1170, 1000)
      [] code = "CHF" -> Rat(1030, 1000)
      [] code = "NOK" -> Rat(85, 1000)
      [] code = "SEK" -> Rat(88, 1000)
      [] code = "DKK" -> Rat(134, 1000)
      [] OTHER -> Rat(1000, 1000)

\* deal.get("fx_rate_to_eur"): absent, or a number
NoRate == [given |-> FALSE, rate |-> Rat(0, 1)]

Rate(r) == [given |-> TRUE, rate |-> r]

\* str(currency).upper(), for the codes used here
Upper(code) == IF code = "gbp" THEN "GBP" ELSE code

\* DealRanker._normalize_price_to_eur: 0 for a price that is not positive,
\* the price times the listing's own rate when that is a positive number,
\* else the price times the table's rate of the currency
normalize_price_to_eur(price, currency, custom_rate) ==
    IF price <= 0 THEN Rat(0, 1)
    ELSE IF custom_rate.given /\ custom_rate.rate.n > 0
    THEN Rat(price * custom_rate.rate.n, custom_rate.rate.d)
    ELSE Rat(price * fx_rates_to_eur(Upper(currency)).n, fx_rates_to_eur(Upper(currency)).d)

\* _round_to(value, 2), in cents
round_to_cents(value) == round(value.n * 100, value.d)

\* the raw listing of a price, and the listings a search can return
PricedRaw(price) == [GoodRaw EXCEPT !.price_per_night = Num(price)]

BudgetPrices == {80, 240, 300}

BudgetCurrencies == {"EUR", "USD", "gbp", "NOK", "XYZ"}

BudgetRates == {NoRate, Rate(Rat(1, 2)), Rate(Rat(2, 1))}

\* find_best_deals from the budget to the end of _validate_deals: the cap is
\* stored, and a listing that passes _invalid_reason is kept with its price,
\* its currency in upper case and its own rate
BudgetValidate(budget, price, currency, custom_rate) ==
    /\ pc \in {"idle", "returned"}
    /\ pc' = "validated"
    /\ budget_max' = nightly_cap(budget, "per_night", 1)
    /\ all_deals' =
          IF raw_invalid_reason(PricedRaw(price), Pets, budget_max') = "valid"
          THEN << [deal |-> Normalized(PricedRaw(price)), currency |-> Upper(currency),
                   fx_rate_to_eur |-> custom_rate] >>
          ELSE <<>>
    /\ ranked' = <<>>
    /\ ret' = [op |-> "_validate_deals", price |-> price, currency |-> currency,
               fx_rate_to_eur |-> custom_rate]
    /\ UNCHANGED <<now, records, cacheVars, tasks, run, calls, alertVars, paceVars>>

\* self.ranker.rank_deals(self.all_deals, nights), the prices of the result:
\* price_per_night is the price in EUR rounded to cents
BudgetRank ==
    /\ pc = "validated"
    /\ pc' = "returned"
    /\ ranked' = [i \in DOMAIN all_deals |->
                    [name |-> all_deals[i].deal.name,
                     price_per_night_cents |->
                         round_to_cents(normalize_price_to_eur(all_deals[i].deal.price_per_night,
                                                               all_deals[i].currency,
                                                               all_deals[i].fx_rate_to_eur)),
                     currency |-> "EUR",
                     original_currency |-> all_deals[i].currency,
                     original_price_per_night |-> all_deals[i].deal.price_per_night]]
    /\ ret' = [op |-> "rank_deals"]
    /\ UNCHANGED <<now, records, cacheVars, budget_max, tasks, run, all_deals, calls, alertVars, paceVars>>

BudgetSearch ==
    \E budget \in Budgets, price \in BudgetPrices, currency \in BudgetCurrencies,
       custom_rate \in BudgetRates : BudgetValidate(budget, price, currency, custom_rate)

NextBudget == BudgetSearch \/ BudgetRank

SpecBudget == InitMetrics /\ [][NextBudget]_vars

MaxRunCalls == 3

MaxRunTicks == 2

\* find_best_deals up to asyncio.gather: start_run, then the call is
\* suspended on its destination tasks
RunCallStart ==
    LET run_id == tracker.issued + 1
    IN  /\ pc \in {"idle", "returned", "raised", "cancelled"}
        /\ calls < MaxRunCalls
        /\ calls' = calls + 1
        /\ pc' = "gather"
        /\ tracker' = [tracker EXCEPT !.issued = run_id,
                                      !.active = Put(@, run_id, NewRunState(run_id, clock))]
        /\ ret' = [op |-> "start_run", run_id |-> run_id]
        /\ UNCHANGED <<now, records, cacheVars, budget_max, tasks, run, all_deals, ranked,
                       alertVars, waiters, callers, clock, delayer, notified, backoff, req>>

\* the tracker after end_run(run_id, status)
RunEnded(run_id, status) ==
    IF run_id \in DOMAIN tracker.active
    THEN LET ended == [tracker.active[run_id] EXCEPT !.ended_at = EndedAt(clock), !.status = status,
                                                     !.attributes = Updated(@, FinalAttrs(status))]
         IN  [tracker EXCEPT !.active = Drop(@, run_id),
                             !.history = Retained(Append(@, to_summary(ended, clock)), max_history)]
    ELSE tracker

\* gather has returned and the listings were validated and tracked without
\* an exception: the call is suspended on the weather lookup
RunCallAwaitsWeather ==
    /\ pc = "gather"
    /\ pc' = "weather"
    /\ ret' = [op |-> "enrich_deals_with_weather", run_id |-> tracker.issued]
    /\ UNCHANGED <<now, records, cacheVars, budget_max, tasks, run, all_deals, ranked, calls,
                   alertVars, paceVars>>

\* the weather lookup has returned: rank, end_run(status="ok"), return
RunCallReturns ==
    /\ pc = "weather"
    /\ pc' = "returned"
    /\ tracker' = RunEnded(tracker.issued, "ok")
    /\ ret' = [op |-> "find_best_deals", run_id |-> tracker.issued, outcome |-> "returned"]
    /\ UNCHANGED <<now, records, cacheVars, budget_max, tasks, run, all_deals, ranked, calls,
                   alertVars, waiters, callers, clock, delayer, notified, backoff, req>>

\* an Exception is raised inside the try block: the handler ends the run
\* with status "error" and raises it again
RunCallFails ==
    /\ pc \in {"gather", "weather"}
    /\ pc' = "raised"
    /\ tracker' = RunEnded(tracker.issued, "error")
    /\ ret' = [op |-> "find_best_deals", run_id |-> tracker.issued, outcome |-> "raised"]
    /\ UNCHANGED <<now, records, cacheVars, budget_max, tasks, run, all_deals, ranked, calls,
                   alertVars, waiters, callers, clock, delayer, notified, backoff, req>>

\* the call is cancelled while suspended: asyncio.CancelledError is raised
\* at the await; it is a BaseException, which "except Exception" lets pass
RunCallCancelled ==
    /\ pc \in {"gather", "weather"}
    /\ pc' = "cancelled"
    /\ ret' = [op |-> "find_best_deals", run_id |-> tracker.issued, outcome |-> "cancelled"]
    /\ UNCHANGED <<now, records, cacheVars, budget_max, tasks, run, all_deals, ranked, calls,
                   alertVars, paceVars>>

RunTick == ClockTick(1, ClockStart + MaxRunTicks)

NextRuns ==
    RunCallStart \/ RunCallAwaitsWeather \/ RunCallReturns \/ RunCallFails
        \/ RunCallCancelled \/ RunTick

SpecRuns == InitMetrics /\ [][NextRuns]_vars

\* C37 as stated: when a find_best_deals call has finished, by returning,
\* by failing or by being cancelled at a suspension point, its run is no
\* longer in the active set and was ended with 'ok' when the call returned
\* and with 'error' otherwise.
C37_AsStated ==
    (ret.op = "find_best_deals") =>
        /\ ret.run_id \notin DOMAIN tracker.active
        /\ tracker.history # <<>>
        /\ tracker.history[Len(tracker.history)].run_id = ret.run_id
        /\ tracker.history[Len(tracker.history)].status =
              (IF ret.outcome = "returned" THEN "ok" ELSE "error")

(***************************************************************************)
(* SpecOutage: destinations are searched one after the other while every   *)
(* network strategy of both sources raises or returns nothing.             *)
(***************************************************************************)
MaxOutageSearches == 5

MaxOutageTicks == 2

\* the searches that fetched so far: each leaves one 'smart_chain' record
\* of the source
SearchesOf(source) ==
    LET IsChain(r) == r.source = source /\ r.strategy = "smart_chain"
    IN  Len(SelectSeq(records, IsChain))

\* the outcomes of an outage: every network strategy raises, or the ones
\* that can return nothing do
OutageBooking == {[curl |-> c, firecrawl |-> "raise"] : c \in {"raise", "empty"}}

OutageAirbnb == {[curl |-> c, firecrawl |-> c, fallback |-> "raise"] : c \in {"raise", "empty"}}

\* the destination of the next search: the destinations in turn
NextCity == Cities[(SearchesOf("booking") % Len(Cities)) + 1]

\* the next destination is searched, once its cache entry has expired
OutageSearch ==
    /\ SearchesOf("booking") < MaxOutageSearches
    /\ ~CacheGetResult(data, make_key(NextCity, Pets, budget_max)).some
    /\ \E booking \in OutageBooking, airbnb \in OutageAirbnb :
          SearchWithDelay(NextCity, booking, airbnb)

OutageTick == Tick(ttl_minutes, MaxOutageTicks * ttl_minutes)

NextOutage == OutageSearch \/ OutageTick

SpecOutage == InitMetrics /\ [][NextOutage]_vars

\* every recorded attempt of a network strategy of the source failed
RealStrategiesFailed(source, strategies) ==
    \A i \in DOMAIN records :
        (records[i].source = source /\ records[i].strategy \in Range(strategies))
            => ~records[i].success

\* C38 as stated: after five or more consecutive searches in which every
\* real (non-fallback) strategy of booking failed, the recorded attempts
\* make should_skip_source('booking') true.
C38_AsStated ==
    (/\ ret.op = "_search_with_delay"
     /\ ~ret.hit
     /\ SearchesOf("booking") >= FAILURE_COOLDOWN_THRESHOLD
     /\ RealStrategiesFailed("booking", BookingStrategies))
        => should_skip_source("booking")

(***************************************************************************)
(* SpecPacing: the destination tasks of one search call wait() on the      *)
(* RequestDelayer of the airbnb scraper, which they share.  A task in      *)
(* wait() is suspended in asyncio.sleep while the other tasks run.         *)
(***************************************************************************)
MaxPacingSeconds == 16

\* a task before its wait(), and the tasks of a search
NotWaiting == [pc |-> "ready", wake |-> 0, released_at |-> 0]

\* wait() up to its suspension: the pressure decays, and when less than
\* min_delay has passed since last_request_time the task goes to sleep;
\* otherwise it stamps last_request_time and is released at once
WaitBegin(i, long) ==
    LET decayed == maybe_decay_pressure(delayer, clock)
    IN  /\ i \in DOMAIN waiters
        /\ waiters[i].pc = "ready"
        /\ IF Paced(decayed, clock)
           THEN /\ waiters' = [waiters EXCEPT ![i] = [pc |-> "sleeping",
                                                      wake |-> clock + PacingDelay(decayed, long),
                                                      released_at |-> 0]]
                /\ delayer' = decayed
           ELSE /\ waiters' = [waiters EXCEPT ![i] = [pc |-> "released", wake |-> clock,
                                                      released_at |-> clock]]
                /\ delayer' = [decayed EXCEPT !.last_request_time = clock]
        /\ ret' = [op |-> "wait", task |-> i, slept |-> Paced(decayed, clock)]
        /\ UNCHANGED <<now, records, cacheVars, agentVars, alertVars, clock, notified, backoff,
                       req, tracker, callers>>

\* wait() after asyncio.sleep: last_request_time is stamped and the task is
\* released
WaitWake(i) ==
    /\ i \in DOMAIN waiters
    /\ waiters[i].pc = "sleeping"
    /\ waiters[i].wake = clock
    /\ waiters' = [waiters EXCEPT ![i] = [@ EXCEPT !.pc = "released", !.released_at = clock]]
    /\ delayer' = [delayer EXCEPT !.last_request_time = clock]
    /\ ret' = [op |-> "wake", task |-> i, slept |-> TRUE]
    /\ UNCHANGED <<now, records, cacheVars, agentVars, alertVars, clock, notified, backoff,
                   req, tracker, callers>>

\* the tasks of a search are created
PacingStart ==
    /\ waiters = <<>>
    /\ waiters' = [i \in DOMAIN Cities |-> NotWaiting]
    /\ ret' = NoRet
    /\ UNCHANGED <<now, records, cacheVars, agentVars, alertVars, clock, delayer, notified,
                   backoff, req, tracker, callers>>

\* a second passes; a sleeping task wakes when its time has come
PacingTick ==
    /\ waiters # <<>>
    /\ clock < ClockStart + MaxPacingSeconds
    /\ \A i \in DOMAIN waiters : waiters[i].pc = "sleeping" => waiters[i].wake > clock
    /\ Elapse(1)
    /\ ret' = NoRet
    /\ UNCHANGED <<records, cacheVars, agentVars, alertVars, delayer, notified, backoff, req,
                   tracker, waiters, callers>>

PacingBegin == \E i \in DOMAIN Cities, long \in BOOLEAN : WaitBegin(i, long)

PacingWake == \E i \in DOMAIN Cities : WaitWake(i)

NextPacing == PacingStart \/ PacingBegin \/ PacingWake \/ PacingTick

SpecPacing == InitMetrics /\ [][NextPacing]_vars

\* C39 as stated: any two tasks released by wait() on the shared delayer
\* are released at least min_delay apart.
C39_AsStated ==
    \A i, j \in DOMAIN waiters :
        (i # j /\ waiters[i].pc = "released" /\ waiters[j].pc = "released")
            => (waiters[i].released_at - waiters[j].released_at >= delayer.base_min_delay
                \/ waiters[j].released_at - waiters[i].released_at >= delayer.base_min_delay)

(***************************************************************************)
(* SpecOverlap: two find_best_deals calls on the same agent, as two HTTP   *)
(* requests make them, each for one destination of its own; a call is      *)
(* suspended in asyncio.gather and in the weather lookup, where the other  *)
(* call runs.  callers[c] keeps the cap the call computed from its own     *)
(* arguments next to what the call read from the agent.                    *)
(***************************************************************************)
NewCaller ==
    [pc |-> "new", cap |-> 0, key |-> <<>>, raw |-> <<>>, validated_with |-> 0,
     valid |-> <<>>, total_deals_found |-> 0]

\* the destination of each call
CallerCity(c) == Cities[c]

\* the two requests arrive
OverlapArrive ==
    /\ callers = <<>>
    /\ callers' = <<NewCaller, NewCaller>>
    /\ ret' = NoRet
    /\ UNCHANGED <<now, records, cacheVars, agentVars, alertVars, clock, delayer, notified,
                   backoff, req, tracker, waiters>>

\* find_best_deals up to asyncio.gather: the nightly cap is stored in the
\* agent and the call is suspended
OverlapStart(c, budget) ==
    /\ c \in DOMAIN callers
    /\ callers[c].pc = "new"
    /\ budget_max' = nightly_cap(budget, "per_night", 1)
    /\ callers' = [callers EXCEPT ![c] = [@ EXCEPT !.pc = "gather", !.cap = nightly_cap(budget, "per_night", 1)]]
    /\ ret' = [op |-> "find_best_deals", caller |-> c]
    /\ UNCHANGED <<now, records, cacheVars, pc, tasks, run, all_deals, ranked, calls, alertVars,
                   clock, delayer, notified, backoff, req, tracker, waiters>>

\* the destination task of the call: the key is built from the agent's cap
\* as it is when the task runs, the lookup misses, and a non-empty result is
\* cached under the key
OverlapTask(c, deals) ==
    LET key == make_key(CallerCity(c), Pets, budget_max)
    IN  /\ c \in DOMAIN callers
        /\ callers[c].pc = "gather"
        /\ ~CacheGetResult(data, key).some
        /\ callers' = [callers EXCEPT ![c] = [@ EXCEPT !.pc = "gathered", !.key = key, !.raw = deals]]
        /\ IF deals # <<>>
           THEN /\ data' = CacheAfterSet(CacheAfterGet(data, key), key, deals)
                /\ disk' = SavedFile(data')
                /\ lastSet' = Put(lastSet, key, [value |-> deals, at |-> now])
           ELSE UNCHANGED cacheVars
        /\ ret' = [op |-> "_search_with_delay", caller |-> c]
        /\ UNCHANGED <<now, records, agentVars, alertVars, clock, delayer, notified, backoff, req,
                       tracker, waiters>>

\* find_best_deals from the return of gather to the weather lookup: the
\* listings are stored in the agent and validated against the agent's cap;
\* track_property is called for every valid listing and raises TypeError
OverlapAggregate(c) ==
    LET valid == valid_deals(callers[c].raw, Pets, budget_max)
    IN  /\ c \in DOMAIN callers
        /\ callers[c].pc = "gathered"
        /\ all_deals' = valid
        /\ callers' = [callers EXCEPT ![c] =
                          [@ EXCEPT !.pc = IF valid # <<>> /\ ~TrackPropertyCallBinds
                                           THEN "raised" ELSE "weather",
                                    !.validated_with = budget_max, !.valid = valid]]
        /\ ret' = [op |-> "_validate_deals", caller |-> c]
        /\ UNCHANGED <<now, records, cacheVars, pc, budget_max, tasks, run, ranked, calls, alertVars,
                       clock, delayer, notified, backoff, req, tracker, waiters>>

\* find_best_deals after the weather lookup: the list that was passed to
\* the lookup is stored in the agent again, ranked and counted
OverlapFinish(c) ==
    /\ c \in DOMAIN callers
    /\ callers[c].pc = "weather"
    /\ all_deals' = callers[c].valid
    /\ ranked' = rank_deals(all_deals')
    /\ callers' = [callers EXCEPT ![c] = [@ EXCEPT !.pc = "returned",
                                                   !.total_deals_found = Len(all_deals')]]
    /\ ret' = [op |-> "find_best_deals", caller |-> c]
    /\ UNCHANGED <<now, records, cacheVars, pc, budget_max, tasks, run, calls, alertVars,
                   clock, delayer, notified, backoff, req, tracker, waiters>>

OverlapBegin == \E c \in {1, 2}, budget \in Budgets : OverlapStart(c, budget)

OverlapSearch == \E c \in {1, 2} : \E deals \in SearchResults(CallerCity(c)) : OverlapTask(c, deals)

OverlapValidate == \E c \in {1, 2} : OverlapAggregate(c)

OverlapReturn == \E c \in {1, 2} : OverlapFinish(c)

NextOverlap == OverlapArrive \/ OverlapBegin \/ OverlapSearch \/ OverlapValidate \/ OverlapReturn

SpecOverlap == InitMetrics /\ [][NextOverlap]_vars

\* C40 as stated: each of two overlapping calls builds its cache key from
\* its own nightly cap, validates its listings against its own cap, and
\* counts only its own valid listings.
C40_AsStated ==
    \A c \in DOMAIN callers :
        /\ callers[c].pc \in {"gathered", "weather", "raised", "returned"}
              => callers[c].key = make_key(CallerCity(c), Pets, callers[c].cap)
        /\ callers[c].pc \in {"weather", "raised", "returned"}
              => /\ callers[c].validated_with = callers[c].cap
                 /\ callers[c].valid = valid_deals(callers[c].raw, Pets, callers[c].cap)
        /\ callers[c].pc = "returned"
              => callers[c].total_deals_found = Len(valid_deals(callers[c].raw, Pets, callers[c].cap))

====
